---- MODULE Spec2Model ----
(***************************************************************************)
(* Model of the persistence and synchronisation engine of kanri_for_vsc:   *)
(*   - BoardManager  (debounced board saves, shutdown flush, file watcher) *)
(*   - WebviewMessageRouter (validation, duplicate suppression, dispatch)  *)
(*   - CardStorage   (card key/value store with a column index)            *)
(* Each subsystem has its own specification; the variables of the other    *)
(* subsystems stay at their initial values.                                *)
(***************************************************************************)
EXTENDS Integers, Sequences, FiniteSets, TLC

(***************************************************************************)
(* Bounds of the model                                                     *)
(***************************************************************************)
MaxClock == 2
MaxExt == 1
MaxEvents == 1

(***************************************************************************)
(* BoardManager: values                                                    *)
(***************************************************************************)
BoardIds == {"A", "B"}
BoardOrder == <<"A", "B">>
Contents == {"local"}
ExtContent == "ext"
\* boards whose files other programs touch, and the timestamps they carry
ExtBoards == {"A"}
ExtTimes == {1, 3}
\* a board value: its content and its lastModified timestamp
NoBoard == [content |-> "none", lm |-> 0]
InitBoard == [content |-> "init", lm |-> 0]
\* entries of the loadedBoards map: absent, the object the UI edits in place,
\* or a separate object parsed from the file
NoEntry == [kind |-> "none", val |-> NoBoard]
UiRef == [kind |-> "ui", val |-> NoBoard]
Loaded(v) == [kind |-> "loaded", val |-> v]
NoTimer == "none"
NoBurst == [state |-> "idle", gen |-> 0, writes |-> 0, clean |-> FALSE, last |-> NoBoard]
NoConflict == [stage |-> "none", ext |-> NoBoard, local |-> NoBoard]

VARIABLES
  autoSave,       \* configuration value kanri.autoSave
  now,            \* clock read by new Date()
  ui,             \* value of the board object the UI holds, per board id
  loadedBoards,   \* BoardManager.loadedBoards
  autoSaveTimer,  \* BoardManager.autoSaveTimer: the board its pending timeout writes
  file,           \* primary board file per id
  writeTasks,     \* writeBoardToFile calls in flight
  fsEvents,       \* file-watcher events not yet delivered, in order
  loads,          \* getBoard reloads in flight, started by the watcher, per id
  pcDeact,        \* position of deactivate(): idle, flushing, done
  extCount,       \* number of external file operations so far
  lastWritten,    \* history: last value the extension wrote per id
  burst,          \* history: the current run of debounced saveBoard calls per id
  conflict        \* history: external write observed while a local write was pending

boardVars == <<autoSave, now, ui, loadedBoards, autoSaveTimer, file, writeTasks,
               fsEvents, loads, pcDeact, extCount, lastWritten, burst, conflict>>

ObjValue(id, obj) == IF obj.kind = "ui" THEN ui[id] ELSE obj.val

\* in-memory state of a board as getBoard's cache hit returns it
Mem(id) == ObjValue(id, loadedBoards[id])

BoardInit ==
  /\ autoSave \in BOOLEAN
  /\ now = 0
  /\ ui = [id \in BoardIds |-> InitBoard]
  /\ loadedBoards = [id \in BoardIds |-> UiRef]
  /\ autoSaveTimer = NoTimer
  /\ file = [id \in BoardIds |-> InitBoard]
  /\ writeTasks = {}
  /\ fsEvents = <<>>
  /\ loads = [id \in BoardIds |-> 0]
  /\ pcDeact = "idle"
  /\ extCount = 0
  /\ lastWritten = [id \in BoardIds |-> NoBoard]
  /\ burst = [id \in BoardIds |-> NoBurst]
  /\ conflict = [id \in BoardIds |-> NoConflict]

(***************************************************************************)
(* BoardManager.saveBoard(board): stamps lastModified, caches the object   *)
(* and either (re)starts the single auto-save timer or writes at once.     *)
(***************************************************************************)
SaveBoard(X, c) ==
  /\ pcDeact = "idle"
  /\ now < MaxClock
  /\ now' = now + 1
  /\ ui' = [ui EXCEPT ![X] = [content |-> c, lm |-> now + 1]]
  /\ loadedBoards' = [loadedBoards EXCEPT ![X] = UiRef]
  /\ IF autoSave
       THEN /\ autoSaveTimer' = X
            /\ writeTasks' = writeTasks
            /\ burst' = [id \in BoardIds |->
                 IF id = X
                   THEN IF burst[X].state = "open"
                          THEN [burst[X] EXCEPT !.last = ui'[X]]
                          ELSE [state |-> "open", gen |-> now + 1,
                                writes |-> 0, clean |-> TRUE, last |-> ui'[X]]
                   ELSE IF burst[id].state = "open"
                          THEN [burst[id] EXCEPT !.clean = FALSE]
                          ELSE burst[id]]
       ELSE /\ autoSaveTimer' = autoSaveTimer
            /\ writeTasks' = writeTasks \cup
                 {[id |-> X, obj |-> UiRef, src |-> "immediate", gen |-> now + 1]}
            /\ burst' = burst
  /\ conflict' = [conflict EXCEPT ![X] = NoConflict]
  /\ UNCHANGED <<autoSave, file, fsEvents, loads, pcDeact, extCount, lastWritten>>

(***************************************************************************)
(* The setTimeout callback of saveBoard: calls writeBoardToFile(board) on  *)
(* the board object captured by the closure.                               *)
(***************************************************************************)
TimerFire ==
  /\ autoSaveTimer # NoTimer
  /\ writeTasks' = writeTasks \cup
       {[id |-> autoSaveTimer, obj |-> UiRef, src |-> "timer",
         gen |-> burst[autoSaveTimer].gen]}
  /\ autoSaveTimer' = NoTimer
  /\ burst' = [burst EXCEPT ![autoSaveTimer] =
       IF @.state = "open" THEN [@ EXCEPT !.state = "fired"] ELSE @]
  /\ UNCHANGED <<autoSave, now, ui, loadedBoards, file, fsEvents, loads, pcDeact,
                 extCount, lastWritten, conflict>>

(***************************************************************************)
(* writeBoardToFile -> FileStorage.saveBoard: after ensureDirectories the  *)
(* object is serialised as it is then, and the primary file is written.    *)
(* The watcher sees the change of an existing file.                        *)
(***************************************************************************)
\* variant: a write that leaves an externally modified file as it is
WrittenValueKeepsExternal(t) ==
  IF file[t.id].content = ExtContent THEN file[t.id] ELSE ObjValue(t.id, t.obj)

WrittenValue(t) == ObjValue(t.id, t.obj)

WriteBoardToFile(t) ==
  /\ t \in writeTasks
  /\ LET v == WrittenValue(t)
         watched == pcDeact # "done" /\ file[t.id] # NoBoard
     IN /\ watched => Len(fsEvents) < MaxEvents
        /\ file' = [file EXCEPT ![t.id] = v]
        /\ lastWritten' = [lastWritten EXCEPT ![t.id] = v]
        /\ fsEvents' = IF watched
                         THEN Append(fsEvents, [type |-> "change", id |-> t.id])
                         ELSE fsEvents
        /\ writeTasks' = writeTasks \ {t}
        /\ burst' = [burst EXCEPT ![t.id] =
             IF @.state = "idle" THEN @
             ELSE IF t.src = "timer" /\ t.gen = @.gen
                    THEN [@ EXCEPT !.state = "closed", !.writes = @ + 1]
                    ELSE IF t.src = "timer" THEN @
                    ELSE [@ EXCEPT !.writes = @ + 1]]
        /\ conflict' = [conflict EXCEPT ![t.id] =
             IF @.stage = "observed" /\ t.src = "timer"
               THEN [@ EXCEPT !.stage = "flushed"] ELSE @]
  /\ UNCHANGED <<autoSave, now, ui, loadedBoards, autoSaveTimer, loads, pcDeact, extCount>>

(***************************************************************************)
(* fileWatcher.onDidChange: drops the cached entry and reloads it.         *)
(***************************************************************************)
WatcherDrops(X) == loadedBoards[X].kind # "none"

WatcherChange ==
  /\ pcDeact # "done"
  /\ Len(fsEvents) > 0
  /\ Head(fsEvents).type = "change"
  /\ LET X == Head(fsEvents).id
     IN /\ fsEvents' = Tail(fsEvents)
        /\ IF WatcherDrops(X)
             THEN /\ loadedBoards' = [loadedBoards EXCEPT ![X] = NoEntry]
                  /\ loads' = [loads EXCEPT ![X] = @ + 1]
             ELSE UNCHANGED <<loadedBoards, loads>>
        /\ conflict' = [conflict EXCEPT ![X] =
             IF @.stage = "none" /\ autoSaveTimer = X /\ file[X].content = ExtContent
               THEN [stage |-> "observed", ext |-> file[X], local |-> ui[X]]
               ELSE @]
  /\ UNCHANGED <<autoSave, now, ui, autoSaveTimer, file, writeTasks, pcDeact,
                 extCount, lastWritten, burst>>

(***************************************************************************)
(* getBoard on a cache miss: FileStorage.loadBoard parses the file and the *)
(* result, when there is one, is put into loadedBoards.                    *)
(***************************************************************************)
LoadBoard(X) == IF file[X] = NoBoard THEN NoEntry ELSE Loaded(file[X])

\* getBoard(X) as a caller sees it: the cached object, or else the parsed file
GetBoard(X) == IF loadedBoards[X].kind # "none" THEN Mem(X) ELSE LoadBoard(X).val

(***************************************************************************)
(* getAllBoards / listBoards: FileStorage.listBoards parses every board    *)
(* file of the directory; the result is sorted by lastModified, newest     *)
(* first.  loadedBoards is not consulted.                                  *)
(***************************************************************************)
ListBoards ==
  SelectSeq([i \in 1..Len(BoardOrder) |->
               [id |-> BoardOrder[i], board |-> file[BoardOrder[i]]]],
            LAMBDA e : e.board # NoBoard)

InsertByLastModified(e, s) ==
  LET k == Cardinality({i \in 1..Len(s) : s[i].board.lm >= e.board.lm})
  IN SubSeq(s, 1, k) \o <<e>> \o SubSeq(s, k + 1, Len(s))

RECURSIVE SortByLastModified(_)
SortByLastModified(s) ==
  IF s = <<>> THEN <<>>
  ELSE InsertByLastModified(s[Len(s)], SortByLastModified(SubSeq(s, 1, Len(s) - 1)))

GetAllBoards == SortByLastModified(ListBoards)

GetBoardReload(X) ==
  /\ loads[X] > 0
  /\ loads' = [loads EXCEPT ![X] = @ - 1]
  /\ loadedBoards' = IF LoadBoard(X).kind = "loaded"
                       THEN [loadedBoards EXCEPT ![X] = LoadBoard(X)]
                       ELSE loadedBoards
  /\ UNCHANGED <<autoSave, now, ui, autoSaveTimer, file, writeTasks, fsEvents,
                 pcDeact, extCount, lastWritten, burst, conflict>>

(***************************************************************************)
(* fileWatcher.onDidDelete: drops the cached entry.                        *)
(***************************************************************************)
WatcherDelete ==
  /\ pcDeact # "done"
  /\ Len(fsEvents) > 0
  /\ Head(fsEvents).type = "delete"
  /\ fsEvents' = Tail(fsEvents)
  /\ loadedBoards' = [loadedBoards EXCEPT ![Head(fsEvents).id] = NoEntry]
  /\ UNCHANGED <<autoSave, now, ui, autoSaveTimer, file, writeTasks, loads, pcDeact,
                 extCount, lastWritten, burst, conflict>>

(***************************************************************************)
(* Another program writes or deletes a board file.                         *)
(***************************************************************************)
ExternalWrite(X, t) ==
  /\ extCount < MaxExt
  /\ extCount' = extCount + 1
  /\ LET watched == pcDeact # "done" /\ file[X] # NoBoard
     IN /\ watched => Len(fsEvents) < MaxEvents
        /\ fsEvents' = IF watched
                         THEN Append(fsEvents, [type |-> "change", id |-> X])
                         ELSE fsEvents
  /\ file' = [file EXCEPT ![X] = [content |-> ExtContent, lm |-> t]]
  /\ conflict' = [conflict EXCEPT ![X] = NoConflict]
  /\ UNCHANGED <<autoSave, now, ui, loadedBoards, autoSaveTimer, writeTasks, loads,
                 pcDeact, lastWritten, burst>>

ExternalDelete(X) ==
  /\ extCount < MaxExt
  /\ file[X] # NoBoard
  /\ extCount' = extCount + 1
  /\ pcDeact # "done" => Len(fsEvents) < MaxEvents
  /\ fsEvents' = IF pcDeact # "done"
                   THEN Append(fsEvents, [type |-> "delete", id |-> X])
                   ELSE fsEvents
  /\ file' = [file EXCEPT ![X] = NoBoard]
  /\ conflict' = [conflict EXCEPT ![X] = NoConflict]
  /\ UNCHANGED <<autoSave, now, ui, loadedBoards, autoSaveTimer, writeTasks, loads,
                 pcDeact, lastWritten, burst>>

(***************************************************************************)
(* deactivate(): saveAllBoards starts writeBoardToFile for every cached    *)
(* board and awaits them all; then dispose clears the timer and the cache. *)
(***************************************************************************)
RECURSIVE FlushTasks(_)
FlushTasks(k) ==
  IF k = 0 THEN {}
  ELSE LET id == BoardOrder[k]
       IN IF loadedBoards[id].kind = "none"
            THEN FlushTasks(k - 1)
            ELSE FlushTasks(k - 1) \cup
                   {[id |-> id, obj |-> loadedBoards[id], src |-> "flush", gen |-> 0]}

SaveAllBoards ==
  /\ pcDeact = "idle"
  /\ pcDeact' = "flushing"
  /\ writeTasks' = writeTasks \cup FlushTasks(Len(BoardOrder))
  /\ burst' = [id \in BoardIds |-> [burst[id] EXCEPT !.clean = FALSE]]
  /\ conflict' = [id \in BoardIds |-> NoConflict]
  /\ UNCHANGED <<autoSave, now, ui, loadedBoards, autoSaveTimer, file, fsEvents, loads,
                 extCount, lastWritten>>

Dispose ==
  /\ pcDeact = "flushing"
  /\ \A t \in writeTasks : t.src # "flush"
  /\ pcDeact' = "done"
  /\ autoSaveTimer' = NoTimer
  /\ loadedBoards' = [id \in BoardIds |-> NoEntry]
  /\ fsEvents' = <<>>
  /\ UNCHANGED <<autoSave, now, ui, file, writeTasks, loads, extCount, lastWritten,
                 burst, conflict>>

BoardNext ==
  \/ \E X \in BoardIds, c \in Contents : SaveBoard(X, c)
  \/ TimerFire
  \/ \E t \in writeTasks : WriteBoardToFile(t)
  \/ WatcherChange
  \/ \E X \in BoardIds : GetBoardReload(X)
  \/ WatcherDelete
  \/ \E X \in ExtBoards, t \in ExtTimes : ExternalWrite(X, t)
  \/ \E X \in ExtBoards : ExternalDelete(X)
  \/ SaveAllBoards
  \/ Dispose


(***************************************************************************)
(* WebviewMessageRouter                                                    *)
(***************************************************************************)
MaxMsgs == 3

SystemCommands == {"ping", "reportError", "getMetrics"}
AppCommands == {"moveCard"}
RequestIds == {"r1", "r2"}
Blank == {"", " "}
Trim(str) == IF str \in Blank THEN "" ELSE str
\* a field the message does not have (typeof undefined)
Missing == "<undefined>"

WellFormed(c, r) ==
  [shape |-> "object", command |-> c, requestId |-> r, tsIsNumber |-> TRUE,
   timestamp |-> 1, source |-> "webview"]

\* the messages the webview sends in this model
Messages ==
  {WellFormed(c, r) : c \in {"ping", "moveCard"}, r \in RequestIds}
  \cup {[WellFormed("ping", "r1") EXCEPT !.shape = "null"],
        [WellFormed("ping", "r1") EXCEPT !.shape = "primitive", !.requestId = ""],
        [WellFormed("ping", "r1") EXCEPT !.command = " "],
        [WellFormed("ping", "r1") EXCEPT !.command = ""],
        [WellFormed("ping", "r1") EXCEPT !.command = Missing],
        [WellFormed("ping", "r1") EXCEPT !.requestId = ""],
        [WellFormed("ping", "r1") EXCEPT !.requestId = Missing],
        [WellFormed("ping", "r1") EXCEPT !.tsIsNumber = FALSE],
        [WellFormed("ping", "r1") EXCEPT !.timestamp = 0],
        [WellFormed("ping", "r1") EXCEPT !.source = "ui"]}

\* the error string of a response, as the pieces it is concatenated from
ErrorText(k, detail) ==
  CASE k = "invalid" -> <<"Invalid message format: ", detail>>
    [] k = "nohandler" -> <<"No handler registered for command: ", detail>>
    [] k = "duplicate" -> <<"Duplicate request ID: ", detail>>
    [] k = "failed" -> <<"Processing failed: ", detail>>
    [] OTHER -> <<>>

NoResp == [requestId |-> "", success |-> FALSE, kind |-> "none", error |-> <<>>]
Resp(r, ok, k, detail) ==
  [requestId |-> r, success |-> ok, kind |-> k, error |-> ErrorText(k, detail)]

\* what a handler can throw: an Error with a message, or any other value
Thrown == {[isError |-> TRUE, message |-> "boom"], [isError |-> TRUE, message |-> ""],
           [isError |-> FALSE, message |-> ""]}
\* error instanceof Error ? error.message : 'Unknown error'
ErrorMessage(e) == IF e.isError THEN e.message ELSE "Unknown error"

VARIABLES
  handlers,         \* WebviewMessageRouter.handlers: the registered commands
  pendingRequests,  \* WebviewMessageRouter.pendingRequests
  totalMessages,    \* performanceMetrics.totalMessages
  errorCount,       \* performanceMetrics.errorCount
  inflight,         \* handler invocations whose promise has not settled
  msgCount,         \* number of processMessage calls so far
  routerDisposed,   \* history: dispose() has been called
  responses,        \* history: outcome of the n-th processMessage call
  msgLog,           \* history: the n-th message
  invoked,          \* history: calls that reached their handler
  overlap,          \* history: calls in flight with the same requestId on arrival
  outcome           \* history: how the handler of the n-th call ended

routerVars == <<handlers, pendingRequests, totalMessages, errorCount, inflight,
                msgCount, routerDisposed, responses, msgLog, invoked, overlap, outcome>>

RouterInit ==
  /\ handlers = SystemCommands
  /\ pendingRequests = {}
  /\ totalMessages = 0
  /\ errorCount = 0
  /\ inflight = {}
  /\ msgCount = 0
  /\ routerDisposed = FALSE
  /\ responses = <<>>
  /\ msgLog = <<>>
  /\ invoked = {}
  /\ overlap = <<>>
  /\ outcome = <<>>

\* variant: the check of the source tag is missing
ValidateMessageSkipsSource(m) ==
  IF m.shape # "object" THEN "Message must be an object"
  ELSE IF m.command = Missing \/ Trim(m.command) = ""
         THEN "Command must be a non-empty string"
  ELSE IF m.requestId = Missing \/ Trim(m.requestId) = ""
         THEN "RequestId must be a non-empty string"
  ELSE IF ~m.tsIsNumber \/ m.timestamp <= 0 THEN "Timestamp must be a positive number"
  ELSE "ok"

\* validateMessage: "ok" or the first failed check
ValidateMessage(m) ==
  IF m.shape # "object" THEN "Message must be an object"
  ELSE IF m.command = Missing \/ Trim(m.command) = ""
         THEN "Command must be a non-empty string"
  ELSE IF m.requestId = Missing \/ Trim(m.requestId) = ""
         THEN "RequestId must be a non-empty string"
  ELSE IF ~m.tsIsNumber \/ m.timestamp <= 0 THEN "Timestamp must be a positive number"
  ELSE IF m.source \notin {"extension", "webview"} THEN "Source must be extension or webview"
  ELSE "ok"

\* variant: the pending-request check is missing
IsDuplicateNever(m) == FALSE

IsDuplicate(m) == m.requestId \in pendingRequests

\* variant: the duplicate is refused inside the try whose finally clears the id
PendingAfterDuplicateCleans(m) == pendingRequests \ {m.requestId}

\* the duplicate is refused before the pending set is touched
PendingAfterDuplicate(m) == pendingRequests

\* variant: the finally block that clears the pending request is missing
PendingAfterCompletionLeaks(r) == pendingRequests

PendingAfterCompletion(r) == pendingRequests \ {r}

(***************************************************************************)
(* registerHandler, as the integration code uses it: handlers are          *)
(* registered while the panel is alive.                                    *)
(***************************************************************************)
RegisterHandler(c) ==
  /\ ~routerDisposed
  /\ c \notin handlers
  /\ handlers' = handlers \cup {c}
  /\ UNCHANGED <<pendingRequests, totalMessages, errorCount, inflight, msgCount,
                 routerDisposed, responses, msgLog, invoked, overlap, outcome>>

(***************************************************************************)
(* processMessage up to its first await: validation, handler lookup,       *)
(* duplicate check, and the call of the handler.                           *)
(***************************************************************************)
ProcessMessage(m) ==
  /\ msgCount < MaxMsgs
  /\ msgCount' = msgCount + 1
  /\ msgLog' = Append(msgLog, m)
  /\ LET n == msgCount + 1
         v == ValidateMessage(m)
     IN IF v # "ok"
          THEN IF m.shape = "null"
                 \* message.requestId throws; the catch block counts the error
                 \* and throws again on message.command: the promise rejects
                 THEN /\ totalMessages' = totalMessages + 1
                      /\ errorCount' = errorCount + 1
                      /\ responses' = Append(responses, Resp("", FALSE, "rejected", ""))
                      /\ overlap' = Append(overlap, {})
                      /\ outcome' = Append(outcome, "none")
                      /\ UNCHANGED <<pendingRequests, inflight, invoked>>
                 ELSE /\ responses' = Append(responses, Resp(m.requestId, FALSE, "invalid", v))
                      /\ overlap' = Append(overlap, {})
                      /\ outcome' = Append(outcome, "none")
                      /\ UNCHANGED <<pendingRequests, inflight, invoked, totalMessages, errorCount>>
          ELSE IF m.command \notin handlers
                 THEN /\ responses' = Append(responses, Resp(m.requestId, FALSE, "nohandler", m.command))
                      /\ overlap' = Append(overlap, {})
                      /\ outcome' = Append(outcome, "none")
                      /\ UNCHANGED <<pendingRequests, inflight, invoked, totalMessages, errorCount>>
                 ELSE /\ overlap' = Append(overlap,
                           {c.n : c \in {d \in inflight : d.requestId = m.requestId}})
                      /\ outcome' = Append(outcome, "none")
                      /\ IF IsDuplicate(m)
                           THEN /\ responses' = Append(responses,
                                     Resp(m.requestId, FALSE, "duplicate", m.requestId))
                                /\ pendingRequests' = PendingAfterDuplicate(m)
                                /\ UNCHANGED <<inflight, invoked, totalMessages, errorCount>>
                           ELSE /\ pendingRequests' = pendingRequests \cup {m.requestId}
                                /\ inflight' = inflight \cup
                                     {[n |-> n, requestId |-> m.requestId, command |-> m.command]}
                                /\ invoked' = invoked \cup {n}
                                /\ responses' = Append(responses, NoResp)
                                /\ UNCHANGED <<totalMessages, errorCount>>
  /\ UNCHANGED <<handlers, routerDisposed>>

(***************************************************************************)
(* The handler's promise resolves with a response (successful or not).     *)
(***************************************************************************)
HandlerReturns(c, ok) ==
  /\ c \in inflight
  /\ c.command \in SystemCommands => ok
  /\ inflight' = inflight \ {c}
  /\ pendingRequests' = PendingAfterCompletion(c.requestId)
  /\ totalMessages' = totalMessages + 1
  /\ responses' = [responses EXCEPT ![c.n] = Resp(c.requestId, ok, "handler", "")]
  /\ outcome' = [outcome EXCEPT ![c.n] = IF ok THEN "ok" ELSE "fail"]
  /\ UNCHANGED <<handlers, errorCount, msgCount, routerDisposed, msgLog, invoked, overlap>>

(***************************************************************************)
(* The handler throws or its promise rejects: finally, then the catch.     *)
(***************************************************************************)
\* variant: no catch around the handler call, the promise rejects
ThrowResponseRejects(c, e) == Resp("", FALSE, "rejected", "")

\* the catch block: createErrorResponse(message.requestId, "Processing failed: ...")
ThrowResponse(c, e) == Resp(c.requestId, FALSE, "failed", ErrorMessage(e))

HandlerThrows(c, e) ==
  /\ c \in inflight
  /\ c.command \notin SystemCommands
  /\ inflight' = inflight \ {c}
  /\ pendingRequests' = PendingAfterCompletion(c.requestId)
  /\ totalMessages' = totalMessages + 1
  /\ errorCount' = errorCount + 1
  /\ responses' = [responses EXCEPT ![c.n] = ThrowResponse(c, e)]
  /\ outcome' = [outcome EXCEPT ![c.n] = "throw"]
  /\ UNCHANGED <<handlers, msgCount, routerDisposed, msgLog, invoked, overlap>>

(***************************************************************************)
(* WebviewMessageRouter.dispose                                            *)
(***************************************************************************)
RouterDispose ==
  /\ ~routerDisposed
  /\ routerDisposed' = TRUE
  /\ handlers' = {}
  /\ pendingRequests' = {}
  /\ UNCHANGED <<totalMessages, errorCount, inflight, msgCount, responses, msgLog,
                 invoked, overlap, outcome>>

RouterNext ==
  \/ \E c \in AppCommands : RegisterHandler(c)
  \/ \E m \in Messages : ProcessMessage(m)
  \/ \E c \in inflight, ok \in BOOLEAN : HandlerReturns(c, ok)
  \/ \E c \in inflight, e \in Thrown : HandlerThrows(c, e)
  \/ RouterDispose

(***************************************************************************)
(* CardStorage over the workspaceState Memento                             *)
(***************************************************************************)
MaxCards == 2
MaxCardOps == 3

CardIds == 1..MaxCards
\* the calls that can be in progress together: C10 is about two of them
Slots == {1, 2}
\* column ids as callers pass them, and as cards store them
RawColumns == {"todo", " todo", "done"}
StoredColumns == {"todo", "done", ""}
\* InputSanitizer.sanitize on a column id: trims it
Sanitize(col) == IF col = " todo" THEN "todo" ELSE col

NoCard == [columnId |-> "-", order |-> 0]
\* an entry of the deleted namespace: the card with its deletedAt
NoDeleted == [columnId |-> "-", order |-> 0, deletedAt |-> 0]
Deleted(c, at) == [columnId |-> c.columnId, order |-> c.order, deletedAt |-> at]
\* the Memento: kanri.cards.<id>, kanri.cards.deleted.<id>, kanri.cards.index,
\* and the card keys in the order keys() lists them
EmptyStorage ==
  [cards |-> [id \in CardIds |-> NoCard],
   deleted |-> [id \in CardIds |-> NoDeleted],
   index |-> [col \in StoredColumns |-> <<>>],
   keys |-> <<>>]

IdleOp == [kind |-> "idle", pc |-> "done", id |-> 0, col |-> "", setCol |-> FALSE,
           cur |-> NoCard, ok |-> FALSE, at |-> 0, error |-> ""]
NewOp(kind, id, col, setCol) ==
  [kind |-> kind, pc |-> "start", id |-> id, col |-> col, setCol |-> setCol,
   cur |-> NoCard, ok |-> FALSE, at |-> 0, error |-> ""]

VARIABLES
  storage,      \* context.workspaceState as CardStorage uses it
  ops,          \* card operations in progress, per slot
  usedIds,      \* card ids generated so far
  opCount,      \* number of card operations started so far
  roundStart,   \* history: storage when the current group of operations began
  roundOps,     \* history: the operations of the current group, as started
  overlapped    \* history: two operations have been in progress together

cardVars == <<storage, ops, usedIds, opCount, roundStart, roundOps, overlapped>>

CardInit ==
  /\ storage = EmptyStorage
  /\ ops = [k \in Slots |-> IdleOp]
  /\ usedIds = {}
  /\ opCount = 0
  /\ roundStart = EmptyStorage
  /\ roundOps = <<>>
  /\ overlapped = FALSE

SeqToSet(q) == {q[i] : i \in 1..Len(q)}

\* Memento.update(key, card) / Memento.update(key, undefined)
PutCard(S, id, c) ==
  [S EXCEPT !.cards[id] = c,
            !.keys = IF id \in SeqToSet(S.keys) THEN S.keys ELSE Append(S.keys, id)]
RemoveCard(S, id) ==
  [S EXCEPT !.cards[id] = NoCard,
            !.keys = SelectSeq(S.keys, LAMBDA k : k # id)]

\* updateCardIndex: rebuilds the column index from the active card keys
UpdateCardIndex(S) ==
  [S EXCEPT !.index =
     [col \in StoredColumns |-> SelectSeq(S.keys, LAMBDA k : S.cards[k].columnId = col)]]

\* Array.prototype.sort((a, b) => a.order - b.order): stable insertion by order
RECURSIVE InsertByOrder(_, _, _)
InsertByOrder(S, q, id) ==
  IF q = <<>> THEN <<id>>
  ELSE IF S.cards[id].order < S.cards[Head(q)].order
         THEN <<id>> \o q
         ELSE <<Head(q)>> \o InsertByOrder(S, Tail(q), id)

RECURSIVE SortByOrder(_, _)
SortByOrder(S, q) ==
  IF q = <<>> THEN <<>>
  ELSE InsertByOrder(S, SortByOrder(S, SubSeq(q, 1, Len(q) - 1)), q[Len(q)])

\* getCard: the active entry of the id, if any
GetCard(S, id) == S.cards[id]

\* getAllCards: the cards under the active keys
GetAllCards(S) == SelectSeq(S.keys, LAMBDA k : S.cards[k] # NoCard)

\* getCardsByColumn: the ids the index lists for the column, those that
\* getCard still finds, sorted by order
GetCardsByColumn(S, col) ==
  LET listed == IF col \in DOMAIN S.index THEN S.index[col] ELSE <<>>
      found == SelectSeq(listed, LAMBDA k : S.cards[k] # NoCard)
  IN SortByOrder(S, found)

RECURSIVE MaxOrderOf(_, _)
MaxOrderOf(S, q) ==
  IF q = <<>> THEN 0
  ELSE LET m == MaxOrderOf(S, Tail(q))
       IN IF S.cards[Head(q)].order > m THEN S.cards[Head(q)].order ELSE m

\* updateCard re-indexes only under "updates.columnId && updates.columnId !== current"
Reindexes(o) == o.setCol /\ o.col # "" /\ o.col # o.cur.columnId

Finish(S, o, ok) == [S |-> S, o |-> [o EXCEPT !.pc = "done", !.ok = ok]]
Goto(S, o, pc) == [S |-> S, o |-> [o EXCEPT !.pc = pc]]

(***************************************************************************)
(* One step of createCard, from one await to the next.  The reads of       *)
(* getCardsByColumn (the index, then each listed card) are taken together  *)
(* at the call.                                                            *)
(***************************************************************************)
CreateCardStep(S, o) ==
  CASE o.pc = "start" ->
         LET newCard == [columnId |-> Sanitize(o.col),
                         order |-> MaxOrderOf(S, GetCardsByColumn(S, o.col)) + 1]
         IN Goto(S, [o EXCEPT !.cur = newCard], "save")
    [] o.pc = "save" -> Goto(PutCard(S, o.id, o.cur), o, "verify")
    [] o.pc = "verify" ->
         IF S.cards[o.id] # NoCard THEN Goto(S, o, "index") ELSE Finish(S, o, FALSE)
    [] o.pc = "index" -> Goto(UpdateCardIndex(S), o, "return")
    [] o.pc = "return" -> Finish(S, o, TRUE)

(***************************************************************************)
(* One step of updateCard.                                                 *)
(***************************************************************************)
UpdateCardStep(S, o) ==
  CASE o.pc = "start" ->
         IF S.cards[o.id] = NoCard THEN Finish(S, o, FALSE)
         ELSE Goto(S, [o EXCEPT !.cur = S.cards[o.id]], "save")
    [] o.pc = "save" ->
         LET updated == IF o.setCol THEN [o.cur EXCEPT !.columnId = o.col] ELSE o.cur
         IN Goto(PutCard(S, o.id, updated), o, "verify")
    [] o.pc = "verify" ->
         IF S.cards[o.id] # NoCard THEN Goto(S, o, "index") ELSE Finish(S, o, FALSE)
    [] o.pc = "index" ->
         IF Reindexes(o) THEN Goto(UpdateCardIndex(S), o, "return") ELSE Finish(S, o, TRUE)
    [] o.pc = "return" -> Finish(S, o, TRUE)

(***************************************************************************)
(* One step of deleteCard.                                                 *)
(***************************************************************************)
\* variant: an entry of the deleted namespace counts as an existing card
DeleteFindsCardOrDeleted(S, id) == S.cards[id] # NoCard \/ S.deleted[id] # NoDeleted

\* "Verify card exists before attempting deletion": the active key is read
DeleteFindsCard(S, id) == S.cards[id] # NoCard

DeleteCardStep(S, o) ==
  CASE o.pc = "start" ->
         IF ~DeleteFindsCard(S, o.id)
           THEN Finish(S, [o EXCEPT !.error = "Cannot delete non-existent card"], FALSE)
         ELSE Goto([S EXCEPT !.deleted[o.id] = Deleted(S.cards[o.id], o.at)],
                   [o EXCEPT !.cur = S.cards[o.id]], "remove")
    [] o.pc = "remove" -> Goto(RemoveCard(S, o.id), o, "index")
    [] o.pc = "index" -> Goto(UpdateCardIndex(S), o, "return")
    [] o.pc = "return" -> Finish(S, o, TRUE)

CardStep(S, o) ==
  CASE o.kind = "create" -> CreateCardStep(S, o)
    [] o.kind = "update" -> UpdateCardStep(S, o)
    [] o.kind = "delete" -> DeleteCardStep(S, o)

Running(o) == o.kind # "idle" /\ o.pc # "done"
FreeSlot(k) == ops[k].kind = "idle" /\ \A j \in 1..(k - 1) : ops[j].kind # "idle"
\* createCard generates the id, so callers know it once createCard has returned
Known(id) ==
  /\ id \in usedIds
  /\ \A j \in Slots : ~(ops[j].kind = "create" /\ ops[j].id = id /\ Running(ops[j]))

\* a call of a card operation runs its first step at once
StartOp(k, o) ==
  /\ opCount < MaxCardOps
  /\ FreeSlot(k)
  /\ opCount' = opCount + 1
  /\ LET r == CardStep(storage, o)
     IN /\ storage' = r.S
        /\ ops' = [ops EXCEPT ![k] = r.o]
  /\ roundStart' = IF roundOps = <<>> THEN storage ELSE roundStart
  /\ roundOps' = Append(roundOps, o)
  /\ overlapped' = (overlapped \/ \E j \in Slots : Running(ops[j]))

CreateCard(k, col, id) ==
  /\ id \notin usedIds
  /\ usedIds' = usedIds \cup {id}
  /\ StartOp(k, NewOp("create", id, col, FALSE))

UpdateCard(k, id, setCol, col) ==
  /\ Known(id)
  /\ ~setCol => col = ""
  /\ StartOp(k, NewOp("update", id, col, setCol))
  /\ UNCHANGED usedIds

DeleteCard(k, id) ==
  /\ Known(id) \/ id \notin usedIds
  /\ StartOp(k, [NewOp("delete", id, "", FALSE) EXCEPT !.at = opCount + 1])
  /\ UNCHANGED usedIds

\* the continuation of an operation after an await
CardOpStep(k) ==
  /\ Running(ops[k])
  /\ LET r == CardStep(storage, ops[k])
     IN /\ storage' = r.S
        /\ ops' = [ops EXCEPT ![k] = r.o]
  /\ UNCHANGED <<usedIds, opCount, roundStart, roundOps, overlapped>>

\* every operation of the group has returned
RoundDone == roundOps # <<>> /\ \A k \in Slots : ~Running(ops[k])

CardRoundEnds ==
  /\ RoundDone
  /\ ops' = [k \in Slots |-> IdleOp]
  /\ roundOps' = <<>>
  /\ UNCHANGED <<storage, usedIds, opCount, roundStart, overlapped>>

CardNext ==
  \/ \E k \in Slots, col \in RawColumns, id \in CardIds : CreateCard(k, col, id)
  \/ \E k \in Slots, id \in CardIds, setCol \in BOOLEAN, col \in StoredColumns :
       UpdateCard(k, id, setCol, col)
  \/ \E k \in Slots, id \in CardIds : DeleteCard(k, id)
  \/ \E k \in Slots : CardOpStep(k)
  \/ CardRoundEnds

(***************************************************************************)
(* FileStorage.saveBoard and the write path that calls it                  *)
(***************************************************************************)
MaxSaves == 2

\* the callers of writeBoardToFile that await it
WriteCallers == {"saveBoard", "saveAllBoards"}
NoDirs == [userDir |-> FALSE, extensionDir |-> FALSE]

VARIABLES
  primaryFile,    \* <userDir>/<id>.kanri.json: the save that wrote it, 0 if absent
  backupFile,     \* <extensionDir>/<id>.kanri.json.backup, likewise
  savePc,         \* position of the write path: idle, dirs, primary, backup, fire, return
  saveNo,         \* number of saves started so far
  saveDirs,       \* what ensureDirectories returned to the current save
  saveResult,     \* what FileStorage.saveBoard returned: none, success, failure
  eventFired,     \* _onDidChangeStorage fired during the current save
  saveCaller,     \* who awaits writeBoardToFile
  callerOutcome,  \* what that caller got: none, completed, failed
  saveLog         \* history: the file writes of the current save, in order

fsVars == <<primaryFile, backupFile, savePc, saveNo, saveDirs, saveResult, eventFired,
            saveCaller, callerOutcome, saveLog>>

FsInit ==
  /\ primaryFile = 0
  /\ backupFile = 0
  /\ savePc = "idle"
  /\ saveNo = 0
  /\ saveDirs = NoDirs
  /\ saveResult = "none"
  /\ eventFired = FALSE
  /\ saveCaller = "none"
  /\ callerOutcome = "none"
  /\ saveLog = <<>>

\* BoardManager.saveBoard (auto-save off) or saveAllBoards calls
\* writeBoardToFile, which calls FileStorage.saveBoard
CallWritePath(caller) ==
  /\ savePc = "idle"
  /\ saveNo < MaxSaves
  /\ saveNo' = saveNo + 1
  /\ savePc' = "dirs"
  /\ saveCaller' = caller
  /\ saveDirs' = NoDirs
  /\ saveResult' = "none"
  /\ eventFired' = FALSE
  /\ callerOutcome' = "none"
  /\ saveLog' = <<>>
  /\ UNCHANGED <<primaryFile, backupFile>>

\* ensureDirectories never throws; without a workspace saveBoard returns a failure
EnsureDirectories(userDir, extensionDir) ==
  /\ savePc = "dirs"
  /\ saveDirs' = [userDir |-> userDir, extensionDir |-> extensionDir]
  /\ IF userDir
       THEN savePc' = "primary" /\ saveResult' = saveResult
       ELSE savePc' = "return" /\ saveResult' = "failure"
  /\ UNCHANGED <<primaryFile, backupFile, saveNo, eventFired, saveCaller, callerOutcome,
                 saveLog>>

\* fs.writeFile(userFilePath): succeeds, or throws into the catch of saveBoard
WritePrimary(ok) ==
  /\ savePc = "primary"
  /\ saveLog' = Append(saveLog, [op |-> "primary", ok |-> ok, existed |-> primaryFile # 0])
  /\ IF ok
       THEN /\ primaryFile' = saveNo
            /\ savePc' = IF saveDirs.extensionDir THEN "backup" ELSE "fire"
            /\ saveResult' = saveResult
       ELSE /\ primaryFile' = primaryFile
            /\ savePc' = "return"
            /\ saveResult' = "failure"
  /\ UNCHANGED <<backupFile, saveNo, saveDirs, eventFired, saveCaller, callerOutcome>>

\* fs.writeFile(backupPath), in the same try block
WriteBackup(ok) ==
  /\ savePc = "backup"
  /\ saveLog' = Append(saveLog, [op |-> "backup", ok |-> ok, existed |-> backupFile # 0])
  /\ IF ok
       THEN /\ backupFile' = saveNo
            /\ savePc' = "fire"
            /\ saveResult' = saveResult
       ELSE /\ backupFile' = backupFile
            /\ savePc' = "return"
            /\ saveResult' = "failure"
  /\ UNCHANGED <<primaryFile, saveNo, saveDirs, eventFired, saveCaller, callerOutcome>>

\* _onDidChangeStorage.fire(); return { success: true }
FireAndReturn ==
  /\ savePc = "fire"
  /\ eventFired' = TRUE
  /\ saveResult' = "success"
  /\ savePc' = "return"
  /\ UNCHANGED <<primaryFile, backupFile, saveNo, saveDirs, saveCaller, callerOutcome,
                 saveLog>>

\* writeBoardToFile awaits saveBoard and does not look at what it returned;
\* its catch runs only when saveBoard throws, which it never does
WritePathOutcome(result) == "completed"

WriteBoardToFileReturns ==
  /\ savePc = "return"
  /\ callerOutcome' = WritePathOutcome(saveResult)
  /\ savePc' = "idle"
  /\ UNCHANGED <<primaryFile, backupFile, saveNo, saveDirs, saveResult, eventFired,
                 saveCaller, saveLog>>

FsNext ==
  \/ \E caller \in WriteCallers : CallWritePath(caller)
  \/ \E userDir \in BOOLEAN, extensionDir \in BOOLEAN : EnsureDirectories(userDir, extensionDir)
  \/ \E ok \in BOOLEAN : WritePrimary(ok)
  \/ \E ok \in BOOLEAN : WriteBackup(ok)
  \/ FireAndReturn
  \/ WriteBoardToFileReturns

(***************************************************************************)
(* EnhancedBoardsViewProvider: the cached board list of the tree view      *)
(***************************************************************************)
MaxViewOps == 4
MaxTicks == 1
MaxVersion == 1

cacheTimeout == 5000
refreshThrottle == 500
\* Date.now() when the provider is constructed, and the time that passes
\* between two events (ms)
StartTime == 10000
TimeSteps == {100, 500, 5000}
\* what boardManager.listBoards() can return: no board, or the boards as of
\* some version of the stored data
BoardLists == {<<>>} \cup {<<v>> : v \in 1..MaxVersion}
NoLoad == [pc |-> "idle", now |-> 0, boards |-> <<>>, epoch |-> 0]
NoRefreshBurst == [start |-> 0, calls |-> 0, refreshes |-> 0, invalidated |-> 0]
NoLoadLog == [started |-> 0, ended |-> 0, items |-> <<>>]
NoRead == [kind |-> "none", stale |-> FALSE, cacheAtCall |-> <<>>, items |-> <<>>]

VARIABLES
  viewNow,         \* Date.now()
  storedBoards,    \* what listBoards would read from storage now
  isLoading,
  lastError,
  lastRefresh,
  boardCache,
  cacheTimestamp,
  load,            \* the getRootItems call that awaits listBoards, if any
  treeEvents,      \* number of _onDidChangeTreeData.fire() calls
  viewOps,         \* number of calls made so far
  ticks,           \* number of clock advances so far
  lastRead,        \* history: the latest getRootItems call and what it returned
  invalidations,   \* history: number of invalidateCache() calls so far
  cacheEpoch,      \* history: value of invalidations when the cached list was read
  refreshBurst,    \* history: the refresh() calls less than 500 ms after the first of them
  loadLog,         \* history: loads started and ended, and what the last one returned
  refreshedFrom    \* history: the state an explicit refresh since the last read was made in

viewVars == <<viewNow, storedBoards, isLoading, lastError, lastRefresh, boardCache,
              cacheTimestamp, load, treeEvents, viewOps, ticks, lastRead,
              invalidations, cacheEpoch, refreshBurst, loadLog, refreshedFrom>>

\* the state of the view as getState() shows it
ViewState ==
  IF isLoading THEN "Loading"
  ELSE IF loadLog.ended = 0 THEN "Initial"
  ELSE IF lastError # "null" THEN "Error"
  ELSE IF Len(boardCache) = 0 THEN "Empty"
  ELSE "Populated"

ViewInit ==
  /\ viewNow = StartTime
  /\ storedBoards \in BoardLists
  /\ isLoading = FALSE
  /\ lastError = "null"
  /\ lastRefresh = 0
  /\ boardCache = <<>>
  /\ cacheTimestamp = 0
  /\ load = NoLoad
  /\ treeEvents = 0
  /\ viewOps = 0
  /\ ticks = 0
  /\ lastRead = NoRead
  /\ invalidations = 0
  /\ cacheEpoch = 0
  /\ refreshBurst = NoRefreshBurst
  /\ loadLog = NoLoadLog
  /\ refreshedFrom = "none"

ViewTick(d) ==
  /\ ticks < MaxTicks
  /\ ticks' = ticks + 1
  /\ viewNow' = viewNow + d
  /\ UNCHANGED <<storedBoards, isLoading, lastError, lastRefresh, boardCache,
                 cacheTimestamp, load, treeEvents, viewOps, lastRead,
                 invalidations, cacheEpoch, refreshBurst, loadLog, refreshedFrom>>

\* the cache test of getRootItems
CacheValid == Len(boardCache) > 0 /\ (viewNow - cacheTimestamp) < cacheTimeout
\* the cache holds a list that is older than the timeout
CacheStale == Len(boardCache) > 0 /\ (viewNow - cacheTimestamp) >= cacheTimeout

\* getChildren() -> getRootItems(), up to its first await
GetRootItems ==
  /\ viewOps < MaxViewOps
  /\ viewOps' = viewOps + 1
  /\ IF isLoading
       THEN /\ lastRead' = [kind |-> "loading", stale |-> CacheStale,
                            cacheAtCall |-> boardCache, items |-> <<>>]
            /\ UNCHANGED <<isLoading, lastError, load, loadLog>>
       ELSE IF CacheValid
         THEN /\ lastRead' = [kind |-> "cached", stale |-> FALSE,
                              cacheAtCall |-> boardCache, items |-> boardCache]
              /\ UNCHANGED <<isLoading, lastError, load, loadLog>>
         ELSE /\ isLoading' = TRUE
              /\ loadLog' = [loadLog EXCEPT !.started = @ + 1]
              /\ lastError' = "null"
              /\ load' = [pc |-> "fetching", now |-> viewNow, boards |-> <<>>, epoch |-> 0]
              /\ lastRead' = [kind |-> "pending", stale |-> CacheStale,
                              cacheAtCall |-> boardCache, items |-> <<>>]
  /\ refreshedFrom' = "none"
  /\ UNCHANGED <<viewNow, storedBoards, lastRefresh, boardCache, cacheTimestamp,
                 treeEvents, ticks, invalidations, cacheEpoch, refreshBurst>>

\* boardManager.listBoards() reads the stored boards
ListBoardsReads ==
  /\ load.pc = "fetching"
  /\ load' = [load EXCEPT !.pc = "fetched", !.boards = storedBoards,
                           !.epoch = invalidations]
  /\ UNCHANGED <<viewNow, storedBoards, isLoading, lastError, lastRefresh, boardCache,
                 cacheTimestamp, treeEvents, viewOps, ticks, lastRead, invalidations,
                 cacheEpoch, refreshBurst, loadLog, refreshedFrom>>

\* boardManager.listBoards() rejects
ListBoardsThrows ==
  /\ load.pc = "fetching"
  /\ load' = [load EXCEPT !.pc = "threw"]
  /\ UNCHANGED <<viewNow, storedBoards, isLoading, lastError, lastRefresh, boardCache,
                 cacheTimestamp, treeEvents, viewOps, ticks, lastRead, invalidations,
                 cacheEpoch, refreshBurst, loadLog, refreshedFrom>>

\* the tree items getRootItems returns for a loaded list
TreeItems(boards) ==
  IF Len(boards) = 0
    THEN <<[type |-> "EmptyTreeItem", board |-> 0]>>
    ELSE [i \in 1..Len(boards) |-> [type |-> "BoardTreeItem", board |-> boards[i]]]

\* variant: the loading flag stays set when the load has thrown
IsLoadingAfterLoadStuck(pc) == pc = "threw"

\* the finally block of getRootItems
IsLoadingAfterLoad(pc) == FALSE

\* the continuation of getRootItems after the await, with its finally block
GetRootItemsReturns ==
  /\ load.pc = "fetched"
  /\ boardCache' = load.boards
  /\ cacheTimestamp' = load.now
  /\ cacheEpoch' = load.epoch
  /\ isLoading' = IsLoadingAfterLoad(load.pc)
  /\ load' = NoLoad
  /\ loadLog' = [loadLog EXCEPT !.ended = @ + 1, !.items = TreeItems(load.boards)]
  /\ lastRead' = IF lastRead.kind = "pending"
                   THEN [lastRead EXCEPT
                           !.kind = IF Len(load.boards) = 0 THEN "empty" ELSE "fresh",
                           !.items = load.boards]
                   ELSE lastRead
  /\ UNCHANGED <<viewNow, storedBoards, lastError, lastRefresh, treeEvents, viewOps, ticks,
                 invalidations, refreshBurst, refreshedFrom>>

\* the catch block of getRootItems, with its finally block
GetRootItemsCatches ==
  /\ load.pc = "threw"
  /\ lastError' = "Failed to load boards"
  /\ isLoading' = IsLoadingAfterLoad(load.pc)
  /\ load' = NoLoad
  /\ loadLog' = [loadLog EXCEPT !.ended = @ + 1,
                                !.items = <<[type |-> "ErrorTreeItem", board |-> 0]>>]
  /\ lastRead' = IF lastRead.kind = "pending"
                   THEN [lastRead EXCEPT !.kind = "error"]
                   ELSE lastRead
  /\ UNCHANGED <<viewNow, storedBoards, lastRefresh, boardCache, cacheTimestamp, treeEvents,
                 viewOps, ticks, invalidations, cacheEpoch, refreshBurst, refreshedFrom>>

\* refresh(): throttled; otherwise invalidateCache() and fire the tree event.
\* cacheIn is the cache as the call finds it.
\* variant: a call exactly 500 ms after the last refresh is throttled too
ThrottledInclusive == viewNow - lastRefresh <= refreshThrottle

Throttled == viewNow - lastRefresh < refreshThrottle

\* the burst a refresh() call at viewNow belongs to, before the call is counted
BurstOfCall ==
  IF refreshBurst.calls > 0 /\ viewNow - refreshBurst.start < refreshThrottle
    THEN refreshBurst
    ELSE [NoRefreshBurst EXCEPT !.start = viewNow]

RefreshFrom(cacheIn) ==
  IF Throttled
    THEN /\ boardCache' = cacheIn.boards
         /\ cacheTimestamp' = cacheIn.ts
         /\ invalidations' = invalidations + cacheIn.inv
         /\ refreshBurst' = [BurstOfCall EXCEPT !.calls = @ + 1]
         /\ UNCHANGED <<lastRefresh, treeEvents>>
    ELSE /\ lastRefresh' = viewNow
         /\ boardCache' = <<>>
         /\ cacheTimestamp' = 0
         /\ invalidations' = invalidations + cacheIn.inv + 1
         /\ treeEvents' = treeEvents + 1
         /\ refreshBurst' = [BurstOfCall EXCEPT !.calls = @ + 1, !.refreshes = @ + 1,
                                                 !.invalidated = @ + 1]

Refresh ==
  /\ viewOps < MaxViewOps
  /\ viewOps' = viewOps + 1
  /\ RefreshFrom([boards |-> boardCache, ts |-> cacheTimestamp, inv |-> 0])
  /\ refreshedFrom' = IF ViewState \in {"Error", "Empty", "Populated"}
                        THEN ViewState ELSE refreshedFrom
  /\ UNCHANGED <<viewNow, storedBoards, isLoading, lastError, load, ticks, lastRead,
                 cacheEpoch, loadLog>>

\* forceRefresh(): invalidateCache(), then refresh()
ForceRefresh ==
  /\ viewOps < MaxViewOps
  /\ viewOps' = viewOps + 1
  /\ RefreshFrom([boards |-> <<>>, ts |-> 0, inv |-> 1])
  /\ refreshedFrom' = IF ViewState \in {"Error", "Empty", "Populated"}
                        THEN ViewState ELSE refreshedFrom
  /\ UNCHANGED <<viewNow, storedBoards, isLoading, lastError, load, ticks, lastRead,
                 cacheEpoch, loadLog>>

\* the stored boards change and FileStorage fires onDidChangeStorage, whose
\* listener calls refresh()
StorageChanged(boards) ==
  /\ viewOps < MaxViewOps
  /\ viewOps' = viewOps + 1
  /\ boards # storedBoards
  /\ storedBoards' = boards
  /\ RefreshFrom([boards |-> boardCache, ts |-> cacheTimestamp, inv |-> 0])
  /\ UNCHANGED <<viewNow, isLoading, lastError, load, ticks, lastRead, cacheEpoch,
                 loadLog, refreshedFrom>>

ViewNext ==
  \/ \E d \in TimeSteps : ViewTick(d)
  \/ GetRootItems
  \/ ListBoardsReads
  \/ ListBoardsThrows
  \/ GetRootItemsReturns
  \/ GetRootItemsCatches
  \/ Refresh
  \/ ForceRefresh
  \/ \E boards \in BoardLists : StorageChanged(boards)

(***************************************************************************)
(* FileStorage.setupFileWatcher: the debounced storage-changed signal      *)
(***************************************************************************)
MaxFileEvents == 3
MaxWatchTicks == 3

debounceMs == 150
WatchedFiles == {"A", "B"}
FileEventKinds == {"create", "change", "delete"}
\* time that passes between two events (ms)
WatchSteps == {50, 100, 150}

VARIABLES
  watchNow,       \* time since the watcher was set up
  debounceTimer,  \* time at which the pending timeout is due, 0 if none
  watchTicks,     \* number of clock advances so far
  eventLog,       \* history: the file events delivered, in order
  signalLog       \* history: the times at which _onDidChangeStorage fired

watchVars == <<watchNow, debounceTimer, watchTicks, eventLog, signalLog>>

WatchInit ==
  /\ watchNow = 0
  /\ debounceTimer = 0
  /\ watchTicks = 0
  /\ eventLog = <<>>
  /\ signalLog = <<>>

TimerDue == debounceTimer # 0 /\ watchNow >= debounceTimer

\* time passes, up to the moment the pending timeout is due
WatchTick(d) ==
  /\ watchTicks < MaxWatchTicks
  /\ debounceTimer # 0 => watchNow + d <= debounceTimer
  /\ watchTicks' = watchTicks + 1
  /\ watchNow' = watchNow + d
  /\ UNCHANGED <<debounceTimer, eventLog, signalLog>>

\* variant: an event that finds a pending timeout leaves it running
DebounceDeadlineKept == IF debounceTimer # 0 THEN debounceTimer ELSE watchNow + debounceMs

\* debouncedFireChange: clearTimeout, then setTimeout(..., 150)
DebounceDeadline == watchNow + debounceMs

\* onDidCreate / onDidChange / onDidDelete of the watcher: the three kinds are
\* handled alike.  A timeout that is due runs first: the event loop runs due
\* timers before I/O callbacks.
FileEvent(f, k) ==
  /\ Len(eventLog) < MaxFileEvents
  /\ ~TimerDue
  /\ k \in FileEventKinds
  /\ eventLog' = Append(eventLog, [file |-> f, at |-> watchNow])
  /\ debounceTimer' = DebounceDeadline
  /\ UNCHANGED <<watchNow, watchTicks, signalLog>>

\* the timeout callback: _onDidChangeStorage.fire()
DebounceFires ==
  /\ TimerDue
  /\ signalLog' = Append(signalLog, watchNow)
  /\ debounceTimer' = 0
  /\ UNCHANGED <<watchNow, watchTicks, eventLog>>

WatchNext ==
  \/ \E d \in WatchSteps : WatchTick(d)
  \/ \E f \in WatchedFiles, k \in FileEventKinds : FileEvent(f, k)
  \/ DebounceFires

(***************************************************************************)
(* Board names: BoardManager.createBoard, BoardManager.saveBoard and the   *)
(* webview's handleRenameBoard                                             *)
(***************************************************************************)
MaxNameOps == 3
MAX_BOARDS_PER_WORKSPACE == 50

\* the ids generateId hands out: one fresh id per created board
NameIds == 1..MaxNameOps
\* what a caller or the input box can supply as a name
NameInputs == {"", "  ", "A", " A ", "B"}
NoName == "<none>"
NoNameTimer == 0
\* String.prototype.trim on the inputs above
NameTrim(str) ==
  CASE str = "  " -> ""
    [] str = " A " -> "A"
    [] OTHER -> str

VARIABLES
  nameAutoSave,   \* the autoSave setting
  nameCache,      \* loadedBoards: the name of the board object cached per id
  nameDisk,       \* the name in each board's file, NoName if there is no file
  nameTimer,      \* the board of the pending auto-save timeout, 0 if none
  nameWrites,     \* boards whose writeBoardToFile is in flight
  creating,       \* names of the createBoard calls awaiting getAllBoards
  nameOps,        \* number of createBoard and rename calls so far
  createdCount,   \* number of boards created so far
  heldAccepted    \* history: a createBoard was accepted with a name in use

nameVars == <<nameAutoSave, nameCache, nameDisk, nameTimer, nameWrites,
              creating, nameOps, createdCount, heldAccepted>>

NameInit ==
  /\ nameAutoSave \in BOOLEAN
  /\ nameCache = [i \in NameIds |-> NoName]
  /\ nameDisk = [i \in NameIds |-> NoName]
  /\ nameTimer = NoNameTimer
  /\ nameWrites = {}
  /\ creating = <<>>
  /\ nameOps = 0
  /\ createdCount = 0
  /\ heldAccepted = FALSE

\* the names getAllBoards returns: those of the board files
ExistingBoards == {i \in NameIds : nameDisk[i] # NoName}
ExistingNames == {nameDisk[i] : i \in ExistingBoards}
\* the names held by any board of the workspace, cached or on disk
HeldNames ==
  ({nameCache[i] : i \in NameIds} \cup {nameDisk[i] : i \in NameIds}) \ {NoName}

\* saveBoard(board): the cache takes the board; with auto-save the one timer
\* is re-armed for this board, otherwise the write starts at once
SaveBoardName(id, name) ==
  /\ nameCache' = [nameCache EXCEPT ![id] = name]
  /\ IF nameAutoSave
       THEN nameTimer' = id /\ UNCHANGED nameWrites
       ELSE nameWrites' = nameWrites \cup {id} /\ UNCHANGED nameTimer

\* createBoard({name}) up to its first await: an empty name throws
CreateBoard(name) ==
  /\ nameOps < MaxNameOps
  /\ nameOps' = nameOps + 1
  /\ creating' = IF name = "" THEN creating ELSE Append(creating, name)
  /\ UNCHANGED <<nameAutoSave, nameCache, nameDisk, nameTimer, nameWrites,
                 createdCount, heldAccepted>>

RemoveAt(s, i) == SubSeq(s, 1, i - 1) \o SubSeq(s, i + 1, Len(s))

\* getAllBoards has returned: the name check, the board limit, the new board
CreateBoardChecked(i) ==
  /\ i \in 1..Len(creating)
  /\ creating' = RemoveAt(creating, i)
  /\ IF \/ creating[i] \in ExistingNames
        \/ Cardinality(ExistingBoards) >= MAX_BOARDS_PER_WORKSPACE
       THEN UNCHANGED <<nameCache, nameTimer, nameWrites, createdCount,
                        heldAccepted>>
       ELSE /\ createdCount' = createdCount + 1
            /\ SaveBoardName(createdCount + 1, creating[i])
            /\ heldAccepted' = (heldAccepted \/ creating[i] \in HeldNames)
  /\ UNCHANGED <<nameAutoSave, nameDisk, nameOps>>

\* handleRenameBoard on an open board, with the input box's answer
HandleRenameBoard(id, newName) ==
  /\ nameOps < MaxNameOps
  /\ nameCache[id] # NoName
  /\ nameOps' = nameOps + 1
  /\ IF newName # "" /\ NameTrim(newName) # ""
        /\ NameTrim(newName) # nameCache[id]
       THEN SaveBoardName(id, NameTrim(newName))
       ELSE UNCHANGED <<nameCache, nameTimer, nameWrites>>
  /\ UNCHANGED <<nameAutoSave, nameDisk, creating, createdCount, heldAccepted>>

\* the auto-save timeout fires: writeBoardToFile(board) starts
NameTimerFires ==
  /\ nameTimer # NoNameTimer
  /\ nameWrites' = nameWrites \cup {nameTimer}
  /\ nameTimer' = NoNameTimer
  /\ UNCHANGED <<nameAutoSave, nameCache, nameDisk, creating, nameOps,
                 createdCount, heldAccepted>>

\* a write completes: the file holds the board object as it is now
NameWritten(id) ==
  /\ id \in nameWrites
  /\ nameDisk' = [nameDisk EXCEPT ![id] = nameCache[id]]
  /\ nameWrites' = nameWrites \ {id}
  /\ UNCHANGED <<nameAutoSave, nameCache, nameTimer, creating, nameOps,
                 createdCount, heldAccepted>>

NameNext ==
  \/ \E name \in NameInputs : CreateBoard(name)
  \/ \E i \in 1..MaxNameOps : CreateBoardChecked(i)
  \/ \E id \in NameIds, newName \in NameInputs : HandleRenameBoard(id, newName)
  \/ NameTimerFires
  \/ \E id \in NameIds : NameWritten(id)

(***************************************************************************)
(* InputValidator: strings are sequences of symbols.  A symbol is one      *)
(* character, or a word written as one symbol ("script", "java", "iframe", *)
(* "onerror"), or an entity that escapeHtml produces.                      *)
(***************************************************************************)
MaxLen == 3

WordSymbols == {"a", "script", "java", "iframe", "onerror"}
SpaceSymbols == {" "}
\* the symbols callers type
InputSymbols == {"a", " ", "<", ">", "script"}

\* String.prototype.length of one symbol
Width(sym) ==
  CASE sym = "script" -> 6
    [] sym = "java" -> 4
    [] sym = "iframe" -> 6
    [] sym = "onerror" -> 7
    [] OTHER -> 1

RECURSIVE StrLen(_)
StrLen(str) == IF str = <<>> THEN 0 ELSE Width(Head(str)) + StrLen(Tail(str))

\* ValidationPresets.CARD_TITLE
CARD_TITLE ==
  [minLength |-> 1, maxLength |-> 100, allowHtml |-> FALSE,
   trimWhitespace |-> TRUE, allowedPattern |-> "none"]

\* String.prototype.trim
RECURSIVE TrimStart(_)
TrimStart(str) ==
  IF str # <<>> /\ Head(str) \in SpaceSymbols THEN TrimStart(Tail(str)) ELSE str
RECURSIVE TrimEnd(_)
TrimEnd(str) ==
  IF str # <<>> /\ str[Len(str)] \in SpaceSymbols
    THEN TrimEnd(SubSeq(str, 1, Len(str) - 1)) ELSE str
TrimWhitespace(str) == TrimEnd(TrimStart(str))

\* positions of sym in str from position from on
Positions(str, sym, from) == {i \in from..Len(str) : str[i] = sym}
Min(S) == CHOOSE x \in S : \A y \in S : x <= y

\* LengthValidationStrategy.validate
LengthValidate(input, config) ==
  IF StrLen(input) = 0
    THEN [isValid |-> FALSE, errorCodes |-> <<"EMPTY_INPUT">>]
    ELSE LET short == IF StrLen(input) < config.minLength
                        THEN <<"TOO_SHORT">> ELSE <<>>
             long == IF StrLen(input) > config.maxLength
                       THEN <<"TOO_LONG">> ELSE <<>>
         IN [isValid |-> short \o long = <<>>, errorCodes |-> short \o long]

\* htmlPattern /<[^>]*>/ finds a match: a "<" with a ">" somewhere after it
HasHtmlTag(str) ==
  \E i \in 1..Len(str) : str[i] = "<" /\ Positions(str, ">", i + 1) # {}

\* "</script>" at position j
ClosesScript(str, j) ==
  /\ j + 3 <= Len(str)
  /\ SubSeq(str, j, j + 3) = <<"<", "/", "script", ">">>
\* "<script\b" at position i
OpensScript(str, i) ==
  /\ i + 1 <= Len(str)
  /\ str[i] = "<" /\ str[i + 1] = "script"
  /\ (i + 2 <= Len(str) => str[i + 2] \notin WordSymbols)
\* the matches of scriptPattern starting at i end at the first "</script>"
ScriptCloses(str, i) == {j \in (i + 2)..Len(str) : ClosesScript(str, j)}
ScriptStarts(str) ==
  {i \in 1..Len(str) : OpensScript(str, i) /\ ScriptCloses(str, i) # {}}
HasScriptTag(str) == ScriptStarts(str) # {}

\* allowedPattern /^[a-zA-Z0-9\s\-_]+$/
MatchesAllowed(str) ==
  /\ str # <<>>
  /\ \A i \in 1..Len(str) : str[i] \in WordSymbols \cup SpaceSymbols \cup {"-", "_"}

\* ContentValidationStrategy.validate
ContentValidate(input, config) ==
  IF TrimWhitespace(input) = <<>>
    THEN [isValid |-> FALSE, errorCodes |-> <<"WHITESPACE_ONLY">>]
    ELSE LET html == IF ~config.allowHtml /\ HasHtmlTag(input)
                       THEN <<"HTML_INJECTION">> ELSE <<>>
             script == IF HasScriptTag(input) THEN <<"SCRIPT_INJECTION">> ELSE <<>>
             chars == IF config.allowedPattern # "none" /\ ~MatchesAllowed(input)
                        THEN <<"INVALID_CHARACTERS">> ELSE <<>>
         IN [isValid |-> html \o script \o chars = <<>>,
             errorCodes |-> html \o script \o chars]

\* replace(/<[^>]*>/g, ''): each match runs from a "<" to the next ">"
RECURSIVE RemoveHtmlTags(_)
RemoveHtmlTags(str) ==
  LET opens == {i \in 1..Len(str) : str[i] = "<" /\ Positions(str, ">", i + 1) # {}}
  IN IF opens = {} THEN str
     ELSE LET i == Min(opens)
              j == Min(Positions(str, ">", i + 1))
          IN SubSeq(str, 1, i - 1) \o RemoveHtmlTags(SubSeq(str, j + 1, Len(str)))

\* replace(scriptPattern, ''): each match runs to the end of its "</script>"
RECURSIVE RemoveScriptTags(_)
RemoveScriptTags(str) ==
  IF ScriptStarts(str) = {} THEN str
  ELSE LET i == Min(ScriptStarts(str))
           j == Min(ScriptCloses(str, i))
       IN SubSeq(str, 1, i - 1) \o RemoveScriptTags(SubSeq(str, j + 4, Len(str)))

\* InputSanitizer.escapeHtml
EscapeSymbol(sym) ==
  CASE sym = "&" -> "&amp;"
    [] sym = "<" -> "&lt;"
    [] sym = ">" -> "&gt;"
    [] sym = "\"" -> "&quot;"
    [] sym = "'" -> "&#39;"
    [] sym = "/" -> "&#x2F;"
    [] OTHER -> sym
EscapeHtml(str) == [i \in 1..Len(str) |-> EscapeSymbol(str[i])]

\* replace(/\s+/g, ' ')
NormalizeWhitespace(str) ==
  SelectSeq([i \in 1..Len(str) |->
               IF str[i] \in SpaceSymbols
                 THEN IF i > 1 /\ str[i - 1] \in SpaceSymbols THEN "" ELSE " "
                 ELSE str[i]],
            LAMBDA sym : sym # "")

\* InputSanitizer.sanitize
SanitizeInput(input, config) ==
  LET trimmed == IF config.trimWhitespace THEN TrimWhitespace(input) ELSE input
      noHtml == IF ~config.allowHtml THEN RemoveHtmlTags(trimmed) ELSE trimmed
  IN NormalizeWhitespace(EscapeHtml(RemoveScriptTags(noHtml)))

\* InputValidator.validate
Validate(input, config) ==
  LET length == LengthValidate(input, config)
      content == ContentValidate(input, config)
  IN [isValid |-> length.isValid /\ content.isValid,
      sanitizedValue |-> SanitizeInput(input, config),
      errorCodes |-> length.errorCodes \o content.errorCodes]

\* the inputs of the security scenarios: a script tag, a javascript: URL,
\* an inline event handler, an iframe
ScriptTagInput ==
  <<"<", "script", ">", "a", "(", "\"", "a", "\"", ")", "<", "/", "script", ">">>
JavascriptUrlInput == <<"java", "script", ":", "a", "(", "\"", "a", "\"", ")">>
EventHandlerInput ==
  <<"<", "a", " ", "a", "=", "\"", "a", "\"", " ", "onerror", "=", "\"", "a", "(",
    "'", "a", "'", ")", "\"", ">">>
IframeInput ==
  <<"<", "iframe", " ", "a", "=", "\"", "java", "script", ":", "a", "(", "'", "a",
    "'", ")", "\"", ">", "<", "/", "iframe", ">">>
XssAttempts == {ScriptTagInput, JavascriptUrlInput, EventHandlerInput, IframeInput}

StringsUpTo(n, symbols) == UNION {[1..k -> symbols] : k \in 0..n}
ValidationInputs == StringsUpTo(MaxLen, InputSymbols) \cup XssAttempts
\* the preset, the preset with other length bounds, and with each option changed
ValidationConfigs ==
  {[CARD_TITLE EXCEPT !.minLength = m, !.maxLength = n] :
     m \in 0..MaxLen, n \in 1..MaxLen}
  \cup {CARD_TITLE,
        [CARD_TITLE EXCEPT !.allowHtml = TRUE],
        [CARD_TITLE EXCEPT !.trimWhitespace = FALSE],
        [CARD_TITLE EXCEPT !.allowedPattern = "identifier"]}

NoCall == [input |-> <<>>, config |-> CARD_TITLE]
NoValidation == [isValid |-> FALSE, sanitizedValue |-> <<>>, errorCodes |-> <<>>]

VARIABLES
  valCall,     \* the arguments of the validate call
  valResult    \* what validate returned, NoValidation before it has

valVars == <<valCall, valResult>>

ValidateInit ==
  /\ valCall \in [input : ValidationInputs, config : ValidationConfigs]
  /\ valResult = NoValidation

\* validator.validate(input, config)
ValidateCall ==
  /\ valResult = NoValidation
  /\ valResult' = Validate(valCall.input, valCall.config)
  /\ UNCHANGED valCall

ValidateNext == ValidateCall

\* no validate call under way
ValidateIdle == ValidateInit /\ valCall = NoCall

(***************************************************************************)
(* Card titles: CardStorage.createCard validates and sanitizes the title,  *)
(* CardStorage.updateCard merges the caller's updates into the card.       *)
(***************************************************************************)
MaxTitleOps == 3

TitleInputs == StringsUpTo(2, {"a", " ", "<", ">"})

VARIABLES
  titles,     \* the title of each card of the active namespace, in order of creation
  titleOps    \* number of createCard and updateCard calls so far

titleVars == <<titles, titleOps>>

TitleInit ==
  /\ titles = <<>>
  /\ titleOps = 0

\* createCard({title}): an invalid title returns success: false before any write
CreateCardTitled(title) ==
  /\ titleOps < MaxTitleOps
  /\ titleOps' = titleOps + 1
  /\ LET titleValidation == Validate(title, CARD_TITLE)
     IN titles' = IF titleValidation.isValid
                    THEN Append(titles, titleValidation.sanitizedValue)
                    ELSE titles

\* updateCard(id, {title}): {...current, ...updates} is saved as it is
UpdateCardTitle(id, title) ==
  /\ titleOps < MaxTitleOps
  /\ id \in 1..Len(titles)
  /\ titleOps' = titleOps + 1
  /\ titles' = [titles EXCEPT ![id] = title]

TitleNext ==
  \/ \E title \in TitleInputs : CreateCardTitled(title)
  \/ \E id \in 1..MaxTitleOps, title \in TitleInputs : UpdateCardTitle(id, title)

(***************************************************************************)
(* Timestamps through JSON: a Date is a number of milliseconds, its JSON   *)
(* form is the ISO string, written here as its seconds and milliseconds.   *)
(***************************************************************************)
MaxStamp == 1

\* the instants new Date() returns in the model
CardTimes == {1000 * s + m : s \in 0..MaxStamp, m \in {0, 999}}

NativeDate(t) == [native |-> TRUE, ms |-> t, iso |-> <<>>]
IsoString(parts) == [native |-> FALSE, ms |-> 0, iso |-> parts]
\* Date.prototype.toJSON
ToISOString(d) == IsoString(<<d.ms \div 1000, d.ms % 1000>>)
\* JSON.parse(JSON.stringify(x)) of a timestamp field
JsonStamp(x) == IF x.native THEN ToISOString(x) ELSE x

\* variant: the milliseconds of the ISO string are dropped
NewDateWholeSeconds(x) ==
  IF x.native THEN NativeDate(x.ms) ELSE NativeDate(x.iso[1] * 1000)

\* new Date(x) for a Date or an ISO string
NewDate(x) ==
  IF x.native THEN NativeDate(x.ms) ELSE NativeDate(x.iso[1] * 1000 + x.iso[2])

(***************************************************************************)
(* CardStorage.createCard -> saveCard -> getCard over the Memento, which   *)
(* hands back the object it was given or its JSON copy, and after a window *)
(* reload always the JSON copy.                                            *)
(***************************************************************************)
CardTitles == {"a", "b"}
CardDescriptions == {Missing, "d"}
CardColumns == {"todo", "done"}

JsonCard(c) ==
  [c EXCEPT !.createdAt = JsonStamp(@), !.updatedAt = JsonStamp(@)]

VARIABLES
  cardReturned,   \* the card createCard returned, if it has been called
  cardMemento,    \* what workspaceState holds under the card's key
  cardFetched     \* the data of getCard's result, if it has been called

tripVars == <<cardReturned, cardMemento, cardFetched>>

TripInit ==
  /\ cardReturned = {}
  /\ cardMemento = {}
  /\ cardFetched = {}

\* createCard: newCard is saved under its key and returned
CreateCardSaved(title, description, columnId, t, asJson) ==
  /\ cardReturned = {}
  /\ LET newCard == [title |-> title, description |-> description,
                     columnId |-> columnId,
                     createdAt |-> NativeDate(t), updatedAt |-> NativeDate(t)]
     IN /\ cardReturned' = {newCard}
        /\ cardMemento' = {IF asJson THEN JsonCard(newCard) ELSE newCard}
  /\ UNCHANGED cardFetched

\* the window reloads: the Memento is read back from its JSON
WindowReload ==
  /\ cardMemento # {}
  /\ cardFetched = {}
  /\ cardMemento' = {JsonCard(c) : c \in cardMemento}
  /\ UNCHANGED <<cardReturned, cardFetched>>

\* getCard: {...cardData, createdAt: new Date(...), updatedAt: new Date(...)}
GetCardFetched ==
  /\ cardMemento # {}
  /\ cardFetched = {}
  /\ cardFetched' = {[c EXCEPT !.createdAt = NewDate(@), !.updatedAt = NewDate(@)] :
                       c \in cardMemento}
  /\ UNCHANGED <<cardReturned, cardMemento>>

TripNext ==
  \/ \E title \in CardTitles, description \in CardDescriptions,
        columnId \in CardColumns, t \in CardTimes, asJson \in BOOLEAN :
       CreateCardSaved(title, description, columnId, t, asJson)
  \/ WindowReload
  \/ GetCardFetched

(***************************************************************************)
(* FileStorage.saveBoard -> loadBoard / listBoards                         *)
(***************************************************************************)
\* the cards of a column as the board holds them
BoardCards ==
  {<<>>} \cup {<<[createdAt |-> NativeDate(t), lastModified |-> NativeDate(t)]>> :
                 t \in CardTimes}
BoardColumns == UNION {[1..k -> BoardCards] : k \in 1..2}
BoardValues ==
  {[createdAt |-> NativeDate(t1), lastModified |-> NativeDate(t2), columns |-> cols] :
     t1 \in CardTimes, t2 \in CardTimes, cols \in BoardColumns}

\* JSON.parse(JSON.stringify(boardData)): every Date at every depth is a string
JsonBoard(b) ==
  [createdAt |-> JsonStamp(b.createdAt),
   lastModified |-> JsonStamp(b.lastModified),
   columns |-> [i \in 1..Len(b.columns) |->
                  [j \in 1..Len(b.columns[i]) |->
                     [createdAt |-> JsonStamp(b.columns[i][j].createdAt),
                      lastModified |-> JsonStamp(b.columns[i][j].lastModified)]]]]

\* loadBoard after JSON.parse: the two date fields of the board are revived
RevivedBoard(data) ==
  [data EXCEPT !.createdAt = NewDate(@), !.lastModified = NewDate(@)]

VARIABLES
  boardJson,     \* the parsed content of the board's file, if the file exists
  boardRead      \* the board loadBoard or listBoards returned, if called

loadVars == <<boardJson, boardRead>>

LoadInit ==
  /\ boardJson = {}
  /\ boardRead = {}

\* FileStorage.saveBoard(board) writes JSON.stringify(boardData)
WriteBoardJson(b) ==
  /\ boardJson = {}
  /\ boardJson' = {JsonBoard(b)}
  /\ UNCHANGED boardRead

\* FileStorage.loadBoard(boardId)
LoadBoardFile ==
  /\ boardJson # {}
  /\ boardRead = {}
  /\ boardRead' = {RevivedBoard(data) : data \in boardJson}
  /\ UNCHANGED boardJson

\* FileStorage.listBoards(): loadBoard on every board file
ListBoardFiles ==
  /\ boardJson # {}
  /\ boardRead = {}
  /\ boardRead' = {RevivedBoard(data) : data \in boardJson}
  /\ UNCHANGED boardJson

LoadNext ==
  \/ \E b \in BoardValues : WriteBoardJson(b)
  \/ LoadBoardFile
  \/ ListBoardFiles

(***************************************************************************)
(* Card moves on a board kept in memory: handleMoveCard of the webview     *)
(* message handler and CardManager.executeCardMove                         *)
(***************************************************************************)
MaxBoardCards == 3

MoveCards == 1..MaxBoardCards
MoveColumns == {"todo", "doing", "done"}
\* column ids a message can name: those of the board and one that is not
TargetColumns == MoveColumns \cup {"nowhere"}
\* card ids a message can name: those of the board and one that is not
MovedCardIds == MoveCards \cup {0}
\* message.position: absent ({}) or a number ({i})
NoPosition == {}
MovePositions == {NoPosition} \cup {{i} : i \in 0..MaxBoardCards}
PositionOf(position) == CHOOSE i \in position : TRUE

RECURSIVE Upto(_)
Upto(n) == IF n = 0 THEN <<>> ELSE Append(Upto(n - 1), n)

\* Array.prototype.splice(i, 0, x) for 0 <= i; an index past the end appends
InsertAt(q, i, x) ==
  LET at == IF i > Len(q) THEN Len(q) ELSE i
  IN SubSeq(q, 1, at) \o <<x>> \o SubSeq(q, at + 1, Len(q))

\* cards.filter(c => c.id !== cardId)
Without(q, id) == SelectSeq(q, LAMBDA c : c # id)

\* the first column, in the board's order, that holds the card
ColumnOrder == <<"todo", "doing", "done">>
HoldingColumns(cols, id) ==
  {i \in 1..Len(ColumnOrder) : \E j \in 1..Len(cols[ColumnOrder[i]]) :
                                  cols[ColumnOrder[i]][j] = id}
FirstHolding(cols, id) ==
  ColumnOrder[CHOOSE i \in HoldingColumns(cols, id) :
                \A k \in HoldingColumns(cols, id) : i <= k]

VARIABLES
  columns        \* board.columns of the open board: column id -> card ids

moveVars == <<columns>>

MoveInit ==
  columns = [c \in MoveColumns |-> IF c = "todo" THEN Upto(MaxBoardCards) ELSE <<>>]

\* handleMoveCard(cardId, targetColumnId, boardManager, board, panel, _, position)
HandleMoveCard(cardId, targetColumnId, position) ==
  IF HoldingColumns(columns, cardId) = {}
    THEN UNCHANGED columns
    ELSE LET source == FirstHolding(columns, cardId)
             removed == [columns EXCEPT ![source] = Without(@, cardId)]
         IN IF targetColumnId \notin MoveColumns
              THEN columns' = removed
              ELSE IF position # NoPosition
                        /\ PositionOf(position) <= Len(removed[targetColumnId])
                     THEN columns' = [removed EXCEPT
                                        ![targetColumnId] = InsertAt(@, PositionOf(position), cardId)]
                     ELSE columns' = [removed EXCEPT
                                        ![targetColumnId] = Append(@, cardId)]

\* CardManager.executeCardMove(operation); it throws before changing the
\* board when a column or the card is not found
ExecuteCardMove(cardId, sourceColumnId, targetColumnId, targetIndex) ==
  IF \/ sourceColumnId \notin MoveColumns
     \/ targetColumnId \notin MoveColumns
    THEN UNCHANGED columns
    ELSE IF \A j \in 1..Len(columns[sourceColumnId]) : columns[sourceColumnId][j] # cardId
      THEN UNCHANGED columns
      ELSE LET removed == [columns EXCEPT ![sourceColumnId] = Without(@, cardId)]
               index == IF targetIndex = NoPosition
                          THEN Len(removed[targetColumnId])
                          ELSE PositionOf(targetIndex)
           IN columns' = [removed EXCEPT ![targetColumnId] = InsertAt(@, index, cardId)]

MoveNext ==
  \/ \E cardId \in MovedCardIds, target \in TargetColumns, position \in MovePositions :
       HandleMoveCard(cardId, target, position)
  \/ \E cardId \in MovedCardIds, source \in TargetColumns, target \in TargetColumns,
        index \in MovePositions :
       ExecuteCardMove(cardId, source, target, index)

vars == <<boardVars, routerVars, cardVars, fsVars, viewVars, watchVars, nameVars, valVars, titleVars, tripVars, loadVars, moveVars>>

NameIdle == NameInit /\ nameAutoSave = TRUE

\* the board manager at rest, for the specifications of the other subsystems
BoardIdle == BoardInit /\ autoSave = TRUE
ViewIdle == ViewInit /\ storedBoards = <<>>

BoardSpecInit == BoardInit /\ RouterInit /\ CardInit /\ FsInit /\ ViewIdle /\ WatchInit /\ NameIdle /\ ValidateIdle /\ TitleInit /\ TripInit /\ LoadInit /\ MoveInit
BoardSpecNext == UNCHANGED <<routerVars, cardVars, fsVars, viewVars, watchVars, nameVars, valVars, titleVars, tripVars, loadVars, moveVars>> /\ BoardNext
BoardSpec == BoardSpecInit /\ [][BoardSpecNext]_vars

RouterSpecInit == BoardIdle /\ RouterInit /\ CardInit /\ FsInit /\ ViewIdle /\ WatchInit /\ NameIdle /\ ValidateIdle /\ TitleInit /\ TripInit /\ LoadInit /\ MoveInit
RouterSpecNext == UNCHANGED <<boardVars, cardVars, fsVars, viewVars, watchVars, nameVars, valVars, titleVars, tripVars, loadVars, moveVars>> /\ RouterNext
RouterSpec == RouterSpecInit /\ [][RouterSpecNext]_vars

CardSpecInit == BoardIdle /\ RouterInit /\ CardInit /\ FsInit /\ ViewIdle /\ WatchInit /\ NameIdle /\ ValidateIdle /\ TitleInit /\ TripInit /\ LoadInit /\ MoveInit
CardSpecNext == UNCHANGED <<boardVars, routerVars, fsVars, viewVars, watchVars, nameVars, valVars, titleVars, tripVars, loadVars, moveVars>> /\ CardNext
CardSpec == CardSpecInit /\ [][CardSpecNext]_vars

FsSpecInit == BoardIdle /\ RouterInit /\ CardInit /\ FsInit /\ ViewIdle /\ WatchInit /\ NameIdle /\ ValidateIdle /\ TitleInit /\ TripInit /\ LoadInit /\ MoveInit
FsSpecNext == UNCHANGED <<boardVars, routerVars, cardVars, viewVars, watchVars, nameVars, valVars, titleVars, tripVars, loadVars, moveVars>> /\ FsNext
FsSpec == FsSpecInit /\ [][FsSpecNext]_vars

ViewSpecInit == BoardIdle /\ RouterInit /\ CardInit /\ FsInit /\ ViewInit /\ WatchInit /\ NameIdle /\ ValidateIdle /\ TitleInit /\ TripInit /\ LoadInit /\ MoveInit
ViewSpecNext == UNCHANGED <<boardVars, routerVars, cardVars, fsVars, watchVars, nameVars, valVars, titleVars, tripVars, loadVars, moveVars>> /\ ViewNext
ViewSpec == ViewSpecInit /\ [][ViewSpecNext]_vars

WatchSpecInit == BoardIdle /\ RouterInit /\ CardInit /\ FsInit /\ ViewIdle /\ WatchInit /\ NameIdle /\ ValidateIdle /\ TitleInit /\ TripInit /\ LoadInit /\ MoveInit
WatchSpecNext == UNCHANGED <<boardVars, routerVars, cardVars, fsVars, viewVars, nameVars, valVars, titleVars, tripVars, loadVars, moveVars>> /\ WatchNext
WatchSpec == WatchSpecInit /\ [][WatchSpecNext]_vars

NameSpecInit == BoardIdle /\ RouterInit /\ CardInit /\ FsInit /\ ViewIdle /\ WatchInit /\ NameInit /\ ValidateIdle /\ TitleInit /\ TripInit /\ LoadInit /\ MoveInit
NameSpecNext == UNCHANGED <<boardVars, routerVars, cardVars, fsVars, viewVars, watchVars, valVars, titleVars, tripVars, loadVars, moveVars>> /\ NameNext
NameSpec == NameSpecInit /\ [][NameSpecNext]_vars

ValidateSpecInit == BoardIdle /\ RouterInit /\ CardInit /\ FsInit /\ ViewIdle /\ WatchInit /\ NameIdle /\ ValidateInit /\ TitleInit /\ TripInit /\ LoadInit /\ MoveInit
ValidateSpecNext == UNCHANGED <<boardVars, routerVars, cardVars, fsVars, viewVars, watchVars, nameVars, titleVars, tripVars, loadVars, moveVars>> /\ ValidateNext
ValidateSpec == ValidateSpecInit /\ [][ValidateSpecNext]_vars

TitleSpecInit == BoardIdle /\ RouterInit /\ CardInit /\ FsInit /\ ViewIdle /\ WatchInit /\ NameIdle /\ ValidateIdle /\ TitleInit /\ TripInit /\ LoadInit /\ MoveInit
TitleSpecNext == UNCHANGED <<boardVars, routerVars, cardVars, fsVars, viewVars, watchVars, nameVars, valVars, tripVars, loadVars, moveVars>> /\ TitleNext
TitleSpec == TitleSpecInit /\ [][TitleSpecNext]_vars

TripSpecInit == BoardIdle /\ RouterInit /\ CardInit /\ FsInit /\ ViewIdle /\ WatchInit /\ NameIdle /\ ValidateIdle /\ TitleInit /\ TripInit /\ LoadInit /\ MoveInit
TripSpecNext == UNCHANGED <<boardVars, routerVars, cardVars, fsVars, viewVars, watchVars, nameVars, valVars, titleVars, loadVars, moveVars>> /\ TripNext
TripSpec == TripSpecInit /\ [][TripSpecNext]_vars

LoadSpecInit == BoardIdle /\ RouterInit /\ CardInit /\ FsInit /\ ViewIdle /\ WatchInit /\ NameIdle /\ ValidateIdle /\ TitleInit /\ TripInit /\ LoadInit /\ MoveInit
LoadSpecNext == UNCHANGED <<boardVars, routerVars, cardVars, fsVars, viewVars, watchVars, nameVars, valVars, titleVars, tripVars, moveVars>> /\ LoadNext
LoadSpec == LoadSpecInit /\ [][LoadSpecNext]_vars

MoveSpecInit == BoardIdle /\ RouterInit /\ CardInit /\ FsInit /\ ViewIdle /\ WatchInit /\ NameIdle /\ ValidateIdle /\ TitleInit /\ TripInit /\ LoadInit /\ MoveInit
MoveSpecNext == UNCHANGED <<boardVars, routerVars, cardVars, fsVars, viewVars, watchVars, nameVars, valVars, titleVars, tripVars, loadVars>> /\ MoveNext
MoveSpec == MoveSpecInit /\ [][MoveSpecNext]_vars

(***************************************************************************)
(* Properties of BoardManager                                              *)
(***************************************************************************)
TimerTaskOf(X) ==
  {t \in writeTasks : t.id = X /\ t.src = "timer" /\ t.gen = burst[X].gen}

\* C1: with auto-save on, a run of saveBoard calls for one board, each inside
\* the debounce window of the previous one, ends in exactly one write of that
\* board, carrying the board as of the last call: once nothing of the run is
\* pending any more (no timer for the board, no write of it in flight), that
\* one write has happened.
C1_OneWritePerBurst ==
  \A X \in BoardIds :
    (/\ pcDeact = "idle"
     /\ burst[X].state # "idle"
     /\ autoSaveTimer # X
     /\ \A t \in writeTasks : t.id # X)
      => (burst[X].writes = 1 /\ lastWritten[X] = burst[X].last)

\* the same for a board saved in isolation (no save of another board and no
\* shutdown flush during the run): while the run is open the timer is pending
\* and nothing was written; once the timer has fired its one write is in
\* flight; once done, one write happened and it carries the last call's state
DebounceCoalescingInIsolation ==
  \A X \in BoardIds :
    burst[X].clean =>
      /\ burst[X].state = "open" => (autoSaveTimer = X /\ burst[X].writes = 0)
      /\ burst[X].state = "fired" =>
           (burst[X].writes = 0 /\ Cardinality(TimerTaskOf(X)) = 1)
      /\ burst[X].state = "closed" =>
           (burst[X].writes = 1 /\ lastWritten[X] = burst[X].last
            /\ TimerTaskOf(X) = {})

\* C2: scheduling the debounced write of board B leaves the pending
\* debounced write of a different board A scheduled.
C2_IndependentDebounce ==
  [][\A A \in BoardIds : \A B \in BoardIds \ {A} :
       (autoSaveTimer = A /\ (\E c \in Contents : SaveBoard(B, c)))
         => autoSaveTimer' = A]_vars

\* C3: when deactivate has finished (saveAllBoards, then dispose) and no
\* write is in flight any more, the last value written for every board that
\* saveBoard accepted is the latest accepted state of that board.
C3_FlushLosesNothing ==
  (pcDeact = "done" /\ writeTasks = {}) =>
    \A X \in BoardIds : ui[X] # InitBoard => lastWritten[X] = ui[X]

\* C6: while the debounce timer of board X is pending, the loadedBoards
\* entry of X is the locally edited object, whatever file events arrive.
C6_WatcherKeepsPendingEntry ==
  \A X \in BoardIds : autoSaveTimer = X => loadedBoards[X] = UiRef

\* reconciliation of an observed conflict has finished: the pending local
\* write was flushed by its timer and every watcher callback has run
Reconciled(X) ==
  /\ conflict[X].stage = "flushed"
  /\ pcDeact = "idle"
  /\ loads[X] = 0
  /\ \A i \in 1..Len(fsEvents) : fsEvents[i].id # X
  /\ \A t \in writeTasks : t.id # X

\* C7: a pending local edit (lastModified T1) meets an external write with
\* T2 > T1: after reconciliation the in-memory board is the external content.
C7_ExternalNewerWins ==
  \A X \in BoardIds :
    (Reconciled(X) /\ conflict[X].ext.lm > conflict[X].local.lm)
      => GetBoard(X) = conflict[X].ext

InFlightIds == {c.requestId : c \in inflight}

C5_PendingIsInFlight == pendingRequests = InFlightIds

\* C5 amended: until dispose is called pendingRequests is exactly the set of
\* requestIds whose handler is running, and it never holds any other id;
\* dispose empties it even while handlers are running.
C5_PendingIsInFlightUntilDispose ==
  /\ pendingRequests \subseteq InFlightIds
  /\ ~routerDisposed => pendingRequests = InFlightIds

\* a requestId whose first handler has completed (returned or thrown) was
\* dispatched again
C5_Witness ==
  \E i \in invoked, j \in invoked :
    /\ i < j
    /\ msgLog[i].requestId = msgLog[j].requestId
    /\ outcome[i] = "throw"
    /\ outcome[j] = "none"
    /\ msgLog[j].requestId \in pendingRequests

NonEmptyText(e) == \E i \in 1..Len(e) : e[i] # ""

\* C11: when a registered handler throws or its promise rejects, the call is
\* answered (not rejected) with success=false, a non-empty error string and
\* the request's requestId; and later messages are processed as usual: a
\* later message is refused as a duplicate only when a call with its
\* requestId was really running on its arrival.
C11_HandlerFailureContained ==
  \A n \in 1..Len(outcome) :
    outcome[n] = "throw" =>
      /\ responses[n].kind # "rejected"
      /\ ~responses[n].success
      /\ NonEmptyText(responses[n].error)
      /\ responses[n].requestId = msgLog[n].requestId
      /\ \A c \in inflight : c.n # n
      /\ \A j \in (n + 1)..Len(responses) :
           responses[j].kind = "duplicate" => overlap[j] # {}

\* a handler threw an Error with an empty message, and a later message was
\* dispatched to its handler
C11_Witness ==
  \E n \in 1..Len(outcome) :
    /\ outcome[n] = "throw"
    /\ responses[n].error = <<"Processing failed: ", "">>
    /\ \E j \in invoked : j > n /\ outcome[j] = "ok"

\* a message object with a missing or empty command, a missing or empty
\* requestId, a non-numeric timestamp or a source tag outside the allowed set
Malformed(m) ==
  /\ m.shape = "object"
  /\ \/ m.command \in {Missing, ""}
     \/ m.requestId \in {Missing, ""}
     \/ ~m.tsIsNumber
     \/ m.source \notin {"extension", "webview"}

\* C12: a malformed message is answered with a success=false response and
\* never reaches a handler.
C12_MalformedRejected ==
  \A n \in 1..Len(msgLog) :
    Malformed(msgLog[n]) =>
      /\ n \notin invoked
      /\ \A c \in inflight : c.n # n
      /\ outcome[n] = "none"
      /\ responses[n].kind = "invalid"
      /\ ~responses[n].success

\* each kind of malformed message was sent while its command had a handler
C12_Witness ==
  /\ ~routerDisposed
  /\ \E n \in 1..Len(msgLog) : msgLog[n].source = "ui" /\ responses[n].kind = "invalid"
  /\ \E n \in 1..Len(msgLog) : msgLog[n].requestId = Missing /\ responses[n].kind = "invalid"
  /\ \E n \in 1..Len(msgLog) : ~msgLog[n].tsIsNumber /\ responses[n].kind = "invalid"

\* C13: a processMessage call refused by validation or as a duplicate leaves
\* the handler registry and the pending-request set as they were (the
\* original's requestId stays pending), runs no handler, and, when it is
\* answered with a response, leaves the metrics as they were.
C13_RejectionHasNoEffect ==
  [][\A m \in Messages :
       (ProcessMessage(m) /\ (ValidateMessage(m) # "ok" \/ (m.command \in handlers /\ IsDuplicate(m))))
         => /\ handlers' = handlers
            /\ pendingRequests' = pendingRequests
            /\ inflight' = inflight
            /\ invoked' = invoked
            /\ responses'[msgCount'].kind \in {"invalid", "duplicate"}
                 => (totalMessages' = totalMessages /\ errorCount' = errorCount)
            /\ responses'[msgCount'].kind = "duplicate" => m.requestId \in pendingRequests']_vars

\* a duplicate was refused and the original is still running and pending
C13_Witness ==
  \E j \in 1..Len(responses) :
    /\ responses[j].kind = "duplicate"
    /\ \E c \in inflight : c.n \in overlap[j] /\ c.requestId \in pendingRequests

\* saveAllBoards has returned to deactivate, which has not yet called dispose
FlushReturned == pcDeact = "flushing" /\ \A t \in writeTasks : t.src # "flush"

\* C17: when saveAllBoards returns, no debounce timer is pending.
C17_NoTimerAfterFlush == FlushReturned => autoSaveTimer = NoTimer

\* C18: while the session runs, a board whose latest state accepted by
\* saveBoard has not been written has its debounce timer pending or a write
\* of that state in progress.
C18_UnwrittenHasPendingWrite ==
  \A X \in BoardIds :
    (pcDeact # "done" /\ ui[X] # InitBoard /\ lastWritten[X] # ui[X])
      => \/ autoSaveTimer = X
         \/ \E t \in writeTasks : t.id = X /\ ObjValue(X, t.obj) = ui[X]

\* C19: while the session runs and no other program touches the files,
\* getBoard and getAllBoards return, for every board saveBoard accepted, the
\* latest accepted state, written or not.
C19_ReadsReflectAccepted ==
  \A X \in BoardIds :
    (pcDeact = "idle" /\ extCount = 0 /\ ui[X] # InitBoard)
      => /\ GetBoard(X) = ui[X]
         /\ \E i \in 1..Len(GetAllBoards) : GetAllBoards[i] = [id |-> X, board |-> ui[X]]

(***************************************************************************)
(* Properties of FileStorage.saveBoard and its callers                     *)
(***************************************************************************)
\* C14: whenever saveBoard overwrites the primary file, the backup copy has
\* been written before the write of the primary file starts.
C14_BackupBeforePrimary ==
  \A i \in 1..Len(saveLog) :
    (saveLog[i].op = "primary" /\ saveLog[i].existed)
      => \E j \in 1..(i - 1) : saveLog[j].op = "backup" /\ saveLog[j].ok

PrimaryWritten == \E i \in 1..Len(saveLog) : saveLog[i].op = "primary" /\ saveLog[i].ok
BackupFailed == \E i \in 1..Len(saveLog) : saveLog[i].op = "backup" /\ ~saveLog[i].ok
PrimaryFailed == \E i \in 1..Len(saveLog) : saveLog[i].op = "primary" /\ ~saveLog[i].ok

\* C15: when the backup write fails and the primary write succeeded,
\* saveBoard reports success and has fired its storage-changed event.
C15_BackupFailureTolerated ==
  (savePc = "return" /\ PrimaryWritten /\ BackupFailed)
    => (saveResult = "success" /\ eventFired)

\* C16: when the write of the primary file fails, the caller of the write
\* path gets a failure, never a completed save.
C16_WriteFailureSurfaced ==
  (callerOutcome # "none" /\ PrimaryFailed) => callerOutcome = "failed"

(***************************************************************************)
(* Properties of the board list of the tree view                           *)
(***************************************************************************)
\* C20: a read of the board list that finds a cached list older than the
\* timeout returns that cached list at once, the reload running in the
\* background.
C20_StaleWhileRevalidate ==
  lastRead.stale => (lastRead.kind = "cached" /\ lastRead.items = lastRead.cacheAtCall)

\* C21: the list in the cache was read from the board manager after the
\* latest invalidateCache(); a list read before it is never cached afterwards.
C21_CacheNewerThanInvalidate ==
  Len(boardCache) > 0 => cacheEpoch = invalidations

C23_SignalInvalidates ==
  [][(\E boards \in BoardLists : StorageChanged(boards)) => boardCache' = <<>>]_vars

\* the states the last finished load ended in, read from the items returned
EndStates ==
  {t \in {"ErrorTreeItem", "EmptyTreeItem", "BoardTreeItem"} :
     \E i \in 1..Len(loadLog.items) : loadLog.items[i].type = t}

\* C25: every load that has started has ended or is in flight; a load that
\* ended returned items of exactly one of Error, Empty and Populated; the
\* loading flag is set exactly while a load is in flight.
C25_LoadEndsInOneState ==
  /\ isLoading <=> load.pc # "idle"
  /\ loadLog.started = loadLog.ended + (IF load.pc # "idle" THEN 1 ELSE 0)
  /\ loadLog.ended > 0 => Cardinality(EndStates) = 1
  /\ (loadLog.ended > 0 /\ ~isLoading) => (lastError # "null" <=> EndStates = {"ErrorTreeItem"})

\* loads have ended in Error after a throw, with the flag cleared
C25_Witness ==
  /\ loadLog.ended >= 2
  /\ EndStates = {"ErrorTreeItem"}
  /\ ~isLoading

\* C26: the first read after an explicit refresh made in one of the states
\* Error, Empty and Populated starts a load.
C26_RefreshThenLoad ==
  [][(refreshedFrom # "none" /\ GetRootItems) => load'.pc = "fetching"]_vars

(***************************************************************************)
(* Properties of the debounced storage-changed signal                      *)
(***************************************************************************)
SignalsAt(t) == Cardinality({n \in 1..Len(signalLog) : signalLog[n] = t})

\* the time 150 ms after event i has been reached and its timeout has run
WindowOver(i) ==
  /\ watchNow >= eventLog[i].at + debounceMs
  /\ debounceTimer # eventLog[i].at + debounceMs

\* event i is the last of a burst of events for its own file
LastOfFileBurst(i) ==
  \A j \in (i + 1)..Len(eventLog) :
    eventLog[j].file = eventLog[i].file => eventLog[j].at - eventLog[i].at >= debounceMs

\* event i is the last of a burst of events for any watched file
LastOfBurst(i) ==
  \A j \in (i + 1)..Len(eventLog) : eventLog[j].at - eventLog[i].at >= debounceMs

\* C24: a burst of events for the same board file produces exactly one
\* signal, fired 150 ms after the last event of the burst.
C24_OneSignalPerFileBurst ==
  \A i \in 1..Len(eventLog) :
    (LastOfFileBurst(i) /\ WindowOver(i)) => SignalsAt(eventLog[i].at + debounceMs) = 1

\* C24 as the code has it: a burst of events for any watched files, each
\* less than 150 ms after the previous one, produces exactly one signal,
\* 150 ms after the last event; no other signal is fired, and an event of
\* any file restarts the window.
C24_OneSignalPerBurst ==
  /\ \A i \in 1..Len(eventLog) :
       WindowOver(i) =>
         SignalsAt(eventLog[i].at + debounceMs) =
           (IF \E j \in i..Len(eventLog) : eventLog[j].at = eventLog[i].at /\ LastOfBurst(j)
              THEN 1 ELSE 0)
  /\ \A n \in 1..Len(signalLog) :
       \E i \in 1..Len(eventLog) : LastOfBurst(i) /\ signalLog[n] = eventLog[i].at + debounceMs

\* a burst of two events at different times has ended with its one signal
C24_Witness ==
  \E i \in 2..Len(eventLog) :
    /\ eventLog[i].at > eventLog[i - 1].at
    /\ eventLog[i].at - eventLog[i - 1].at < debounceMs
    /\ LastOfBurst(i)
    /\ SignalsAt(eventLog[i].at + debounceMs) = 1
    /\ SignalsAt(eventLog[i - 1].at + debounceMs) = 0

(***************************************************************************)
(* Card store properties                                                   *)
(***************************************************************************)
\* an operation run from its call to its return with nothing in between
RECURSIVE RunToCompletion(_, _)
RunToCompletion(S, o) ==
  IF o.pc = "done" THEN S
  ELSE LET r == CardStep(S, o) IN RunToCompletion(r.S, r.o)

SameStore(S, T) ==
  /\ S.cards = T.cards
  /\ S.deleted = T.deleted
  /\ S.index = T.index

ActiveInColumn(S, col) ==
  {id \in CardIds : S.cards[id] # NoCard /\ S.cards[id].columnId = col}

\* C9: after any sequence of createCard, updateCard and deleteCard calls, each
\* run to completion before the next starts, getCardsByColumn(col) returns for
\* every column id exactly the active cards whose stored columnId is col.
C9_IndexCorrectness ==
  (~overlapped /\ \A k \in Slots : ~Running(ops[k]))
    => \A col \in StoredColumns \cup RawColumns :
         SeqToSet(GetCardsByColumn(storage, col)) = ActiveInColumn(storage, col)

\* C10: when two card operations were started so that their storage steps
\* interleave, the active namespace, the deleted namespace and the column index
\* end up as after running the two operations one after the other in some order.
C10_Serializable ==
  (RoundDone /\ Len(roundOps) = 2)
    => \/ SameStore(storage,
            RunToCompletion(RunToCompletion(roundStart, roundOps[1]), roundOps[2]))
       \/ SameStore(storage,
            RunToCompletion(RunToCompletion(roundStart, roundOps[2]), roundOps[1]))

\* deleteCard(id) has returned success in slot k
DeleteSucceeded(k) == ops[k].kind = "delete" /\ ops[k].pc = "done" /\ ops[k].ok

\* C27: after deleteCard(id) has succeeded the deleted namespace holds the
\* card's data with its deletedAt, the active namespace has no entry for id,
\* and getCard, getAllCards and getCardsByColumn do not return the card.
C27_SoftDelete ==
  \A k \in Slots :
    DeleteSucceeded(k) =>
      LET id == ops[k].id
      IN /\ \E at \in 1..MaxCardOps : storage.deleted[id] = Deleted(ops[k].cur, at)
         /\ id \notin SeqToSet(storage.keys)
         /\ GetCard(storage, id) = NoCard
         /\ id \notin SeqToSet(GetAllCards(storage))
         /\ \A col \in StoredColumns \cup RawColumns :
              id \notin SeqToSet(GetCardsByColumn(storage, col))

\* C28: deleteCard(id) for an id without an active entry (soft-deleted
\* before, or never created) returns at once with the failure "non-existent
\* card" and leaves both namespaces, the index and the deletedAt as they were.
C28_DeleteMissingIsNoOp ==
  [][\A k \in Slots, id \in CardIds :
       (DeleteCard(k, id) /\ storage.cards[id] = NoCard)
         => /\ storage' = storage
            /\ ops'[k].pc = "done"
            /\ ~ops'[k].ok
            /\ ops'[k].error = "Cannot delete non-existent card"]_vars

\* a second deleteCard of a soft-deleted card has failed and the entry of the
\* deleted namespace is the one the first deleteCard wrote
C28_Witness ==
  \E k \in Slots :
    /\ ops[k].kind = "delete" /\ ops[k].pc = "done" /\ ~ops[k].ok
    /\ storage.deleted[ops[k].id] # NoDeleted
    /\ storage.deleted[ops[k].id].deletedAt < ops[k].at

\* C29: after any sequence of createCard, move (updateCard with a columnId)
\* and deleteCard calls, each run to completion before the next starts, the
\* list getCardsByColumn returns is in ascending order of the order field,
\* cards of equal order in ascending id order.
C29_SortedByOrderThenId ==
  (~overlapped /\ \A k \in Slots : ~Running(ops[k]))
    => \A col \in StoredColumns \cup RawColumns :
         LET listed == GetCardsByColumn(storage, col)
         IN \A i \in 1..Len(listed) : \A j \in (i + 1)..Len(listed) :
              \/ storage.cards[listed[i]].order < storage.cards[listed[j]].order
              \/ /\ storage.cards[listed[i]].order = storage.cards[listed[j]].order
                 /\ listed[i] < listed[j]

(***************************************************************************)
(* Board name properties                                                   *)
(***************************************************************************)
\* C30: after any sequence of createBoard and rename operations no two
\* boards have the same name, neither among the cached boards nor among the
\* board files, and no createBoard was accepted with a name some board held
C30_UniqueNames ==
  /\ \A i, j \in NameIds :
       i # j =>
         /\ (nameCache[i] # NoName => nameCache[i] # nameCache[j])
         /\ (nameDisk[i] # NoName => nameDisk[i] # nameDisk[j])
  /\ ~heldAccepted

(***************************************************************************)
(* InputValidator and card title properties                                *)
(***************************************************************************)
\* C31: after any sequence of createCard and updateCard calls every card of
\* the active namespace has a title that passes card-title validation and
\* is non-empty after sanitization
C31_TitlesValid ==
  \A id \in 1..Len(titles) :
    /\ Validate(titles[id], CARD_TITLE).isValid
    /\ SanitizeInput(titles[id], CARD_TITLE) # <<>>

Returned == valResult # NoValidation
Has(codes, code) == \E i \in 1..Len(codes) : codes[i] = code

\* C35: validate reports the length codes by the configured bounds: an input
\* shorter than minLength, the empty string included, is invalid with
\* TOO_SHORT, an input longer than maxLength is invalid with TOO_LONG
C35_LengthCodes ==
  Returned =>
    /\ StrLen(valCall.input) < valCall.config.minLength
         => (~valResult.isValid /\ Has(valResult.errorCodes, "TOO_SHORT"))
    /\ StrLen(valCall.input) > valCall.config.maxLength
         => (~valResult.isValid /\ Has(valResult.errorCodes, "TOO_LONG"))

\* C36: with the CARD_TITLE preset every input carrying a script-execution
\* vector is invalid and its sanitized value does not contain "script"
C36_ScriptVectorsRejected ==
  (Returned /\ valCall.config = CARD_TITLE /\ valCall.input \in XssAttempts)
    => (~valResult.isValid /\ ~Has(valResult.sanitizedValue, "script"))

(***************************************************************************)
(* Router metrics and non-object messages                                  *)
(***************************************************************************)
\* the n-th processMessage call has returned a response
ResponseReturned(n) ==
  n <= Len(responses) /\ responses[n].kind \notin {"none", "rejected"}

\* C32: whenever a processMessage call returns a response (handled, invalid,
\* duplicate or without handler), totalMessages grows by exactly one in that
\* step and errorCount grows by one exactly if the response has success=false
C32_MetricsFollowResponses ==
  [][\A n \in 1..MaxMsgs :
       (~ResponseReturned(n) /\ ResponseReturned(n)')
         => /\ totalMessages' = totalMessages + 1
            /\ errorCount' = errorCount + (IF responses'[n].success THEN 0 ELSE 1)]_vars

\* C37: a call with a message that is null, undefined or not an object
\* resolves with a success=false response saying the message must be an
\* object; its promise is never rejected
C37_NonObjectAnswered ==
  \A n \in 1..Len(msgLog) :
    msgLog[n].shape # "object"
      => responses[n] = Resp(msgLog[n].requestId, FALSE, "invalid",
                             "Message must be an object")

(***************************************************************************)
(* Timestamp round trips                                                   *)
(***************************************************************************)
\* C33: the card getCard returns after createCard equals the card createCard
\* returned field for field, createdAt and updatedAt being native dates with
\* the original milliseconds
C33_CardRoundTrip ==
  cardFetched # {} => cardFetched = cardReturned

\* a card with a millisecond part was read back from the Memento's JSON copy
C33_Witness ==
  /\ cardFetched # {}
  /\ \E c \in cardMemento : ~c.createdAt.native /\ c.createdAt.iso[2] # 0

\* C34: every board loadBoard or listBoards returns has native dates in its
\* createdAt and lastModified and in those of every card of its columns
C34_LoadedDatesNative ==
  \A b \in boardRead :
    /\ b.createdAt.native /\ b.lastModified.native
    /\ \A i \in 1..Len(b.columns) : \A j \in 1..Len(b.columns[i]) :
         b.columns[i][j].createdAt.native /\ b.columns[i][j].lastModified.native

\* C38: whenever no card operation is in progress, no card id has an entry in
\* both the active namespace and the deleted namespace, however the steps of
\* updateCard and deleteCard calls on one card interleave.
C38_NamespacesDisjoint ==
  (\A k \in Slots : ~Running(ops[k]))
    => \A id \in CardIds :
         ~(storage.cards[id] # NoCard /\ storage.deleted[id] # NoDeleted)

(***************************************************************************)
(* Card moves                                                              *)
(***************************************************************************)
\* the number of places on the board where the card is
Places(id) ==
  Cardinality({<<c, j>> \in MoveColumns \X (1..MaxBoardCards) :
                 j <= Len(columns[c]) /\ columns[c][j] = id})

\* C39: a card move never changes the set of cards on the board: whatever
\* cardId and targetColumn the moveCard message names, every card of the board
\* is in exactly one column afterwards.
C39_MoveKeepsCards ==
  \A id \in MoveCards : Places(id) = 1

\* createCard has returned success in slot k and no card operation was
\* started after it
CreateJustSucceeded(k) ==
  /\ ops[k].kind = "create" /\ ops[k].pc = "done" /\ ops[k].ok
  /\ ~overlapped
  /\ \A j \in Slots : ~Running(ops[j])
  /\ roundOps # <<>>
  /\ roundOps[Len(roundOps)] = NewOp("create", ops[k].id, ops[k].col, FALSE)

\* C40: when createCard has succeeded for the column id c, getCardsByColumn(c),
\* asked with the same c, returns the new card as the last element of its list.
C40_CreatedCardIsLast ==
  \A k \in Slots :
    CreateJustSucceeded(k) =>
      LET listed == GetCardsByColumn(storage, ops[k].col)
      IN listed # <<>> /\ listed[Len(listed)] = ops[k].id

====
